---- MODULE Spec2Model ----
(***************************************************************************)
(* Conversational retrieval-and-response orchestrator of                   *)
(* backend/src/QA_integration.py: QA_RAG turns, the volatile and the       *)
(* durable chat history, the background summarizer and the document-name   *)
(* filter.                                                                 *)
(*                                                                         *)
(* Python lists are objects: `messages = history.messages` is an alias of  *)
(* the list the history holds, and `history.clear()` rebinds the history   *)
(* to a new list.  The model keeps a heap of lists (lists) and a heap of   *)
(* history objects (hists) so that aliasing is what the code makes it.     *)
(***************************************************************************)
EXTENDS Integers, Sequences, FiniteSets, TLC

-----------------------------------------------------------------------------
(* Bounds *)

\* number of askQuestion calls one request thread issues, one after another
MaxTurns == 1
\* number of request threads that run askQuestion at the same time
MaxThreads == 2
\* longest document-name filter, in tokens, enumerated exhaustively
MaxTokens == 4
\* longest well-formed array of names rendered as a filter
MaxNames == 2
\* longest sequence of raw records a session of the store starts with
MaxRaw == 3
\* number of calls made, one after another, on the history interface
MaxOps == 3
\* most messages a session of the store holds when the history API is called
MaxStored == 2
\* messages in a sequence handed to the retriever chain directly
MaxMsgs == 3
\* documents handed to format_documents
MaxDocs == 2
\* entries in the communitydetails of one document
MaxEntries == 2
\* session nodes in the store when the sessions are listed
MaxCount == 4
\* largest limit and largest offset a listing is asked with
MaxLimit == 3
MaxOffset == 4

-----------------------------------------------------------------------------
(* Messages and raw records *)

Null == "null_type"

\* HumanMessage(content=c), AIMessage(content=c)
HumanMessage(c) == [obj |-> "msg", type |-> "human", content |-> c]
AIMessage(c) == [obj |-> "msg", type |-> "ai", content |-> c]

\* raw records of the store that are no usable message: None, an object
\* without a type attribute, a message whose type is None
NoneRecord == [obj |-> "none", type |-> Null, content |-> "none"]
NoTypeRecord == [obj |-> "str", type |-> Null, content |-> "invalid_message"]
NullTypeMessage == [obj |-> "msg", type |-> Null, content |-> "old"]
OldHuman == HumanMessage("old")
OldAI == AIMessage("old")
\* the message a caller hands to add_message
NewMessage == AIMessage("new")

RawRecords == {OldHuman, OldAI, NoneRecord, NoTypeRecord, NullTypeMessage}

\* `message and hasattr(message, 'type') and message.type is not None`
\* the validity test without its last conjunct
IsValidMessage_NoTypeCheck(m) == m.obj # "none" /\ m.obj = "msg"

IsValidMessage(m) ==
  /\ m.obj # "none"        \* `message` is truthy
  /\ m.obj = "msg"         \* hasattr(message, 'type')
  /\ m.type # Null         \* message.type is not None

RECURSIVE ValidMessages(_)
\* the loop of _validate_and_cache_messages / validate_and_clean_messages
ValidMessages(raw) ==
  IF raw = <<>> THEN <<>>
  ELSE IF IsValidMessage(Head(raw))
       THEN <<Head(raw)>> \o ValidMessages(Tail(raw))
       ELSE ValidMessages(Tail(raw))

SUMMARY_MARKER == "Our current conversation summary till now"
NO_DOCS_ANSWER == "I couldn't find any relevant documents to answer your question."
ADVISORY == "Please deselect all documents in the table before using this chat mode"
SOMETHING_WRONG == "Something went wrong"

\* sequences over S of length at most n
SeqsUpTo(S, n) == UNION {[1..k -> S] : k \in 0..n}

-----------------------------------------------------------------------------
(* The document-name filter (QA_RAG, lines 828-842) *)

\* A filter string is a sequence of JSON lexemes; a string lexeme carries its
\* characters, so that str.strip has something to strip.
Tok(k) == [k |-> k, s |-> <<>>]
StrTok(s) == [k |-> "str", s |-> s]
LB == Tok("lb")
RB == Tok("rb")
COMMA == Tok("comma")
LC == Tok("lc")
RC == Tok("rc")
COLON == Tok("colon")
NULLTOK == Tok("null")
NUM == Tok("num")
WS == Tok("ws")
BAD == Tok("bad")

Str_a == <<"a">>
Str_sp_a_sp == <<" ", "a", " ">>
Str_b_sp == <<"b", " ">>

Tokens == {LB, RB, COMMA, LC, RC, COLON, NULLTOK, NUM, WS, BAD,
           StrTok(Str_a), StrTok(Str_sp_a_sp)}
NameStrings == {Str_a, Str_sp_a_sp, Str_b_sp}

\* the values document_names can take: None, a str, anything else
NoneInput == [kind |-> "none", text |-> <<>>]
NonStrInput == [kind |-> "nonstr", text |-> <<>>]
StrInput(t) == [kind |-> "str", text |-> t]

RECURSIVE LStrip(_)
LStrip(s) == IF s # <<>> /\ Head(s) = " " THEN LStrip(Tail(s)) ELSE s
RECURSIVE RStrip(_)
RStrip(s) ==
  IF s # <<>> /\ s[Len(s)] = " " THEN RStrip(SubSeq(s, 1, Len(s) - 1)) ELSE s
\* stripping the left end only
StrStrip_LeftOnly(s) == LStrip(s)

\* str.strip on a string of characters
StrStrip(s) == RStrip(LStrip(s))

RECURSIVE DropWs(_)
\* JSON whitespace between lexemes is insignificant
DropWs(t) ==
  IF t = <<>> THEN <<>>
  ELSE IF Head(t).k = "ws" THEN DropWs(Tail(t))
       ELSE <<Head(t)>> \o DropWs(Tail(t))

\* document_names.strip() is empty
IsBlank(t) == DropWs(t) = <<>>

ParseFail == [ok |-> FALSE, kind |-> "err", s |-> <<>>, items |-> <<>>, next |-> 0]
ParseOk(kind, s, items, next) ==
  [ok |-> TRUE, kind |-> kind, s |-> s, items |-> items, next |-> next]
\* an element of a parsed array or a key of a parsed object
Item(v) == [kind |-> v.kind, s |-> v.s]

RECURSIVE AddKey(_, _)
\* dict insertion: a repeated key keeps its first position
AddKey(keys, k) ==
  IF keys = <<>> THEN <<k>>
  ELSE IF Head(keys) = k THEN keys
       ELSE <<Head(keys)>> \o AddKey(Tail(keys), k)

RECURSIVE ParseValue(_, _)
RECURSIVE ParseItems(_, _, _)
RECURSIVE ParseMembers(_, _, _)

\* json.loads, one value starting at lexeme i
ParseValue(t, i) ==
  IF i > Len(t) THEN ParseFail
  ELSE CASE t[i].k = "null" -> ParseOk("null", <<>>, <<>>, i + 1)
         [] t[i].k = "num" -> ParseOk("num", <<>>, <<>>, i + 1)
         [] t[i].k = "str" -> ParseOk("str", t[i].s, <<>>, i + 1)
         [] t[i].k = "lb" ->
              IF i + 1 <= Len(t) /\ t[i + 1].k = "rb"
              THEN ParseOk("arr", <<>>, <<>>, i + 2)
              ELSE ParseItems(t, i + 1, <<>>)
         [] t[i].k = "lc" ->
              IF i + 1 <= Len(t) /\ t[i + 1].k = "rc"
              THEN ParseOk("obj", <<>>, <<>>, i + 2)
              ELSE ParseMembers(t, i + 1, <<>>)
         [] OTHER -> ParseFail

ParseItems(t, i, acc) ==
  LET v == ParseValue(t, i) IN
  IF ~v.ok THEN ParseFail
  ELSE LET acc2 == Append(acc, Item(v))
           j == v.next
       IN IF j > Len(t) THEN ParseFail
          ELSE IF t[j].k = "comma" THEN ParseItems(t, j + 1, acc2)
          ELSE IF t[j].k = "rb" THEN ParseOk("arr", <<>>, acc2, j + 1)
          ELSE ParseFail

ParseMembers(t, i, acc) ==
  IF i + 1 > Len(t) \/ t[i].k # "str" \/ t[i + 1].k # "colon" THEN ParseFail
  ELSE LET v == ParseValue(t, i + 2) IN
       IF ~v.ok THEN ParseFail
       ELSE LET acc2 == AddKey(acc, [kind |-> "str", s |-> t[i].s])
                j == v.next
            IN IF j > Len(t) THEN ParseFail
               ELSE IF t[j].k = "comma" THEN ParseMembers(t, j + 1, acc2)
               ELSE IF t[j].k = "rc" THEN ParseOk("obj", <<>>, acc2, j + 1)
               ELSE ParseFail

\* json.loads(document_names): one value and nothing after it
JsonLoads(text) ==
  LET t == DropWs(text)
      v == ParseValue(t, 1)
  IN IF v.ok /\ v.next = Len(t) + 1 THEN v ELSE ParseFail

\* list(map(str.strip, value)); ok is FALSE where Python raises TypeError
MapStrip(v) ==
  CASE v.kind \in {"arr", "obj"} ->
         IF \A n \in 1..Len(v.items) : v.items[n].kind = "str"
         THEN [ok |-> TRUE,
               list |-> [n \in 1..Len(v.items) |-> StrStrip(v.items[n].s)]]
         ELSE [ok |-> FALSE, list |-> <<>>]
    [] v.kind = "str" ->
         [ok |-> TRUE, list |-> [n \in 1..Len(v.s) |-> StrStrip(<<v.s[n]>>)]]
    [] OTHER -> [ok |-> FALSE, list |-> <<>>]

\* lines 829-842: the value of parsed_document_names
NormalizeFilter(d) ==
  LET text == IF d.kind = "none" THEN <<LB, RB>>
              ELSE IF d.kind = "str"
                   THEN (IF IsBlank(d.text) THEN <<LB, RB>> ELSE d.text)
                   ELSE <<LB, RB>>
      v == JsonLoads(text)
  IN IF ~v.ok THEN <<>>
     ELSE LET r == MapStrip(v) IN IF r.ok THEN r.list ELSE <<>>

RECURSIVE Render(_)
\* the JSON text of an array of names: [ "n1" , "n2" ]
Render(names) ==
  IF names = <<>> THEN <<>>
  ELSE IF Len(names) = 1 THEN <<StrTok(names[1])>>
       ELSE <<StrTok(names[1]), COMMA>> \o Render(Tail(names))
RenderArray(names) == <<LB>> \o Render(names) \o <<RB>>

FilterInputs ==
  {NoneInput, NonStrInput}
    \cup {StrInput(t) : t \in SeqsUpTo(Tokens, MaxTokens)}
    \cup {StrInput(RenderArray(ns)) : ns \in SeqsUpTo(NameStrings, MaxNames)}
    \cup {StrInput(<<WS>> \o RenderArray(ns) \o <<WS>>) :
            ns \in SeqsUpTo(NameStrings, MaxNames)}

-----------------------------------------------------------------------------
(* State *)

Sessions == {"s1", "s2"}
MainThread == 1
Threads == 1..MaxThreads
Largest(S) == CHOOSE n \in S : \A m \in S : m <= n
TurnIds == 1..Largest({MaxTurns + 1, MaxThreads})

CHAT_GRAPH_MODE == "graph"
CHAT_VECTOR_MODE == "vector"
CHAT_ENTITY_VECTOR_MODE == "entity_vector"
CHAT_DEFAULT_MODE == "graph_vector_fulltext"
CHAT_GLOBAL_VECTOR_FULLTEXT_MODE == "global_vector"
\* the mode names a caller passes; "my_mode" is in no configuration entry
Modes == {CHAT_GRAPH_MODE, CHAT_VECTOR_MODE, CHAT_ENTITY_VECTOR_MODE, "my_mode"}
ConfigModes == {CHAT_VECTOR_MODE, CHAT_ENTITY_VECTOR_MODE, CHAT_DEFAULT_MODE}

\* CHAT_MODE_CONFIG_MAP at process start: no entry has a "mode" key yet
CHAT_MODE_CONFIG_MAP ==
  [m \in ConfigModes |->
     [mode |-> "unset",
      document_filter |-> (m # CHAT_ENTITY_VECTOR_MODE),
      index_name |-> TRUE,
      retrieval_query |-> TRUE]]

\* the document_names values the turns are called with
TurnFilters ==
  {NoneInput,
   StrInput(<<BAD>>),
   StrInput(<<LB, StrTok(Str_sp_a_sp), RB>>)}

\* token counts a provider reports for one answer
TokenCounts == {0, 5}

Question(n) == "q" \o ToString(n)
Answer(n) == "a" \o ToString(n)
Summary(n) == "summary" \o ToString(n)

VARIABLES
  store,         \* session id -> raw records of the durable store
  history_dict,  \* SessionChatHistory.history_dict: session id -> history (0: absent)
  hists,         \* heap of history objects
  lists,         \* heap of Python lists of messages
  settings_map,  \* CHAT_MODE_CONFIG_MAP, a module-level dict
  nturns,        \* number of askQuestion calls issued so far
  turn,          \* thread -> locals of the QA_RAG call it runs
  summ,          \* turn number -> summarizer thread started by that turn
  flt,           \* a document-name filter and its normalized value
  sessions,      \* session ids that have a __Session__ node in the store
  api,           \* the call made last on the history API, and its outcome
  environ,       \* os.environ, the .env file and an EnvironmentConfig
  fmt,           \* a call of format_documents: its documents and result
  page           \* a call of get_chat_histories: its arguments and result

vars == <<store, history_dict, hists, lists, settings_map, nturns, turn, summ, flt,
          sessions, api, environ, fmt, page>>

ZeroCalls == [llm |-> 0, retriever |-> 0, retrieve |-> 0, rewrite |-> 0,
              synth |-> 0, graph |-> 0, summ |-> 0, index |-> 0]

NoEnv == [session_id |-> "", message |-> "", error |-> "", total_tokens |-> 0,
          mode |-> ""]

IdleTurn ==
  [pc |-> "idle", n |-> 0, sid |-> "", mode |-> "", hist |-> 0, messages |-> 0,
   skey |-> "", parsed |-> <<>>, content |-> "", tokens |-> 0, mv |-> FALSE,
   docs |-> "unset", exc |-> "", env |-> NoEnv, err |-> "", calls |-> ZeroCalls,
   rewriteIn |-> <<>>, synthIn |-> <<>>, load |-> "", prior |-> <<>>,
   query |-> "", shape |-> ""]

NoSumm ==
  [pc |-> "none", hist |-> 0, messages |-> 0, ret |-> "none", lock |-> 0,
   sumIn |-> <<>>, pre |-> <<>>, calls |-> 0]

NoFilter == [phase |-> "off", input |-> NoneInput, output |-> <<>>]

\* no EnvironmentConfig exists and no format_documents call was made
NoEnviron == [phase |-> "off"]
NoFormat == [phase |-> "off"]

\* no get_chat_histories call was made
NoPage == [phase |-> "off"]

\* no call on the history API was made yet
NoApi == [op |-> "none", sid |-> "", arg |-> "", how |-> "", status |-> "",
          message |-> "", result |-> <<>>, raw |-> <<>>, nops |-> 0]

\* ChatMessageHistory(): an in-memory history holding the list l
MemHistory(l) == [kind |-> "mem", sid |-> "", list |-> l, validated |-> FALSE]
\* SafeNeo4jChatMessageHistory.__init__: _cached_messages None (0), not validated
SafeHistory(sid) == [kind |-> "safe", sid |-> sid, list |-> 0, validated |-> FALSE]

\* the validated view with the kept records in reverse order
ValidatedView_Reversed(raw, outcome) ==
  IF outcome = "read"
  THEN LET v == ValidMessages(raw) IN [i \in 1..Len(v) |-> v[Len(v) + 1 - i]]
  ELSE <<>>

\* _validate_and_cache_messages (658-683) on a handle that has no validated
\* cache: the raw records are read and filtered; when the underlying
\* history has no _messages the raw list is []; when reading raises, the
\* except branch caches [].
ValidatedView(raw, outcome) ==
  IF outcome = "read" THEN ValidMessages(raw) ELSE <<>>

\* the test of the else branch of validate_and_clean_messages (773-777)
HasType(m) == m.obj = "msg" /\ m.type # Null

\* validate_and_clean_messages (745-785) on a history whose records are
\* raw: with a _messages attribute the records are filtered as the handle
\* filters them, without one the messages property is filtered by type
\* alone, and an exception yields [].
ValidateAndCleanMessages(raw, outcome) ==
  CASE outcome = "read" -> ValidMessages(raw)
    [] outcome = "noattr" -> SelectSeq(raw, HasType)
    [] outcome = "raise" -> <<>>

\* what history.messages yields for the history object h, without changing it
HistSeq(h) ==
  IF h.kind = "mem" THEN lists[h.list]
  ELSE IF h.validated THEN (IF h.list = 0 THEN <<>> ELSE lists[h.list])
  ELSE ValidMessages(store[h.sid])

\* a session whose stored records are partly malformed
CorruptRecords == <<NullTypeMessage, OldHuman, NoneRecord, NoTypeRecord>>
EmptyStore == [s \in Sessions |-> <<>>]
InitStores == {EmptyStore, [EmptyStore EXCEPT !["s1"] = CorruptRecords]}

Init ==
  /\ store \in InitStores
  /\ history_dict = [s \in Sessions |-> 0]
  /\ hists = <<>>
  /\ lists = <<>>
  /\ settings_map = CHAT_MODE_CONFIG_MAP
  /\ nturns = 0
  /\ turn = [th \in Threads |-> IdleTurn]
  /\ summ = [n \in TurnIds |-> NoSumm]
  /\ flt = NoFilter
  /\ sessions = {}
  /\ api = NoApi
  /\ environ = NoEnviron
  /\ fmt = NoFormat
  /\ page = NoPage

-----------------------------------------------------------------------------
(* QA_RAG: one askQuestion call, step by step *)

T(th) == turn[th]
SetTurn(th, r) == turn' = [turn EXCEPT ![th] = r]
Bump(calls, f) == [calls EXCEPT ![f] = @ + 1]

\* the except branches of process_chat_response / process_graph_response
FailureEnvelope(mode, kind) ==
  [session_id |-> "", message |-> SOMETHING_WRONG, error |-> kind,
   total_tokens |-> 0, mode |-> mode]

\* create_neo4j_chat_message_history (709-729) with
\* SessionChatHistory.get_chat_history (50-72).  constructed = FALSE: the
\* constructor of the durable handle raises and a fresh in-memory history
\* is returned instead.
CreateHistory(th, sids, accesses) ==
  /\ T(th).pc \in {"idle", "returned", "raised"}
  /\ \E sid \in sids, write_access \in accesses, constructed \in BOOLEAN :
       LET n == nturns + 1
           newh == Len(hists) + 1
           newl == Len(lists) + 1
           started(h) == [IdleTurn EXCEPT !.pc = "created", !.n = n,
                                          !.sid = sid, !.hist = h]
       IN /\ nturns' = n
          /\ IF write_access
             THEN IF constructed
                  THEN /\ hists' = Append(hists, SafeHistory(sid))
                       /\ SetTurn(th, started(newh))
                       /\ UNCHANGED <<lists, history_dict>>
                  ELSE /\ hists' = Append(hists, MemHistory(newl))
                       /\ lists' = Append(lists, <<>>)
                       /\ SetTurn(th, started(newh))
                       /\ UNCHANGED history_dict
             ELSE /\ constructed
                  /\ IF history_dict[sid] = 0
                     THEN /\ hists' = Append(hists, MemHistory(newl))
                          /\ lists' = Append(lists, <<>>)
                          /\ history_dict' = [history_dict EXCEPT ![sid] = newh]
                          /\ SetTurn(th, started(newh))
                     ELSE /\ SetTurn(th, started(history_dict[sid]))
                          /\ UNCHANGED <<hists, lists, history_dict>>
  /\ UNCHANGED <<store, settings_map, summ, flt, sessions, api>>
  /\ UNCHANGED <<environ, fmt, page>>

\* the load whose exception, raised while the raw records are read, leaves
\* the handle and QA_RAG
LoadMessages_Propagates(th) ==
  /\ T(th).pc = "created"
  /\ LET h == hists[T(th).hist]
         newl == Len(lists) + 1
     IN IF h.kind = "mem" \/ h.validated
        THEN /\ SetTurn(th, [T(th) EXCEPT !.pc = "loaded", !.messages = h.list,
                                           !.load = "held",
                                           !.prior = lists[h.list]])
             /\ UNCHANGED <<hists, lists>>
        ELSE \E outcome \in {"read", "noattr", "raise"} :
               LET view == ValidatedView(store[h.sid], outcome)
               IN IF outcome = "raise"
                  THEN /\ SetTurn(th, [T(th) EXCEPT !.pc = "raised",
                                         !.load = outcome, !.exc = "load",
                                         !.err = "Exception"])
                       /\ UNCHANGED <<hists, lists>>
                  ELSE /\ lists' = Append(lists, view)
                       /\ hists' = [hists EXCEPT ![T(th).hist] =
                                      [h EXCEPT !.list = newl, !.validated = TRUE]]
                       /\ SetTurn(th, [T(th) EXCEPT !.pc = "loaded",
                                         !.messages = newl, !.load = outcome,
                                         !.prior = view])
  /\ UNCHANGED <<store, history_dict, settings_map, nturns, summ, flt, sessions, api>>
  /\ UNCHANGED <<environ, fmt, page>>

\* messages = history.messages (811-818).  On the durable handle this is
\* _validate_and_cache_messages (658-683); reading the raw records either
\* yields them, finds no _messages attribute, or raises.
LoadMessages(th) ==
  /\ T(th).pc = "created"
  /\ LET h == hists[T(th).hist]
         newl == Len(lists) + 1
     IN IF h.kind = "mem" \/ h.validated
        THEN /\ SetTurn(th, [T(th) EXCEPT !.pc = "loaded", !.messages = h.list,
                                           !.load = "held",
                                           !.prior = lists[h.list]])
             /\ UNCHANGED <<hists, lists>>
        ELSE \E outcome \in {"read", "noattr", "raise"} :
               LET view == ValidatedView(store[h.sid], outcome)
               IN /\ lists' = Append(lists, view)
                  /\ hists' = [hists EXCEPT ![T(th).hist] =
                                 [h EXCEPT !.list = newl, !.validated = TRUE]]
                  /\ SetTurn(th, [T(th) EXCEPT !.pc = "loaded", !.messages = newl,
                                               !.load = outcome, !.prior = view])
  /\ UNCHANGED <<store, history_dict, settings_map, nturns, summ, flt, sessions, api>>
  /\ UNCHANGED <<environ, fmt, page>>

\* messages.append(HumanMessage(content=question)) and the test of mode
\* (820-825)
AppendQuestion(th, modes) ==
  /\ T(th).pc = "loaded"
  /\ \E mode \in modes :
       /\ lists' = [lists EXCEPT ![T(th).messages] =
                      Append(@, HumanMessage(Question(T(th).n)))]
       /\ SetTurn(th, [T(th) EXCEPT
                         !.mode = mode,
                         !.pc = IF mode = CHAT_GRAPH_MODE THEN "g_create"
                                ELSE "settings"])
  /\ UNCHANGED <<store, history_dict, hists, settings_map, nturns, summ, flt, sessions, api>>
  /\ UNCHANGED <<environ, fmt, page>>

\* get_chat_mode_settings (731-743): the entry of the mode, or the default
\* entry, is stamped with the mode name and returned by reference.  The
\* lookup raising (found = FALSE) is not caught by QA_RAG.
GetChatModeSettings(th) ==
  /\ T(th).pc = "settings"
  /\ \E found \in BOOLEAN :
       IF found
       THEN LET key == IF T(th).mode \in ConfigModes THEN T(th).mode
                       ELSE CHAT_DEFAULT_MODE
            IN /\ settings_map' = [settings_map EXCEPT ![key].mode = T(th).mode]
               /\ SetTurn(th, [T(th) EXCEPT !.pc = "parse", !.skey = key])
       ELSE /\ SetTurn(th, [T(th) EXCEPT !.pc = "raised", !.exc = "settings",
                                          !.err = "TypeError"])
            /\ UNCHANGED settings_map
  /\ UNCHANGED <<store, history_dict, hists, lists, nturns, summ, flt, sessions, api>>
  /\ UNCHANGED <<environ, fmt, page>>

\* the parse without the policy gate: every filter goes on to retrieval
ParseAndGate_NoGate(th, filters) ==
  /\ T(th).pc = "parse"
  /\ \E document_names \in filters :
       SetTurn(th, [T(th) EXCEPT !.pc = "setup",
                                 !.parsed = NormalizeFilter(document_names)])
  /\ UNCHANGED <<store, history_dict, hists, lists, settings_map, nturns, summ, flt, sessions, api>>
  /\ UNCHANGED <<environ, fmt, page>>

\* lines 828-861: parse document_names, then the policy gate
ParseAndGate(th, filters) ==
  /\ T(th).pc = "parse"
  /\ \E document_names \in filters :
       LET parsed == NormalizeFilter(document_names)
           settings == settings_map[T(th).skey]
       IN IF parsed # <<>> /\ ~settings.document_filter
          THEN SetTurn(th, [T(th) EXCEPT
                 !.pc = "finish", !.parsed = parsed,
                 !.env = [session_id |-> "", message |-> ADVISORY,
                          error |-> "", total_tokens |-> 0,
                          mode |-> settings.mode]])
          ELSE SetTurn(th, [T(th) EXCEPT !.pc = "setup", !.parsed = parsed])
  /\ UNCHANGED <<store, history_dict, hists, lists, settings_map, nturns, summ, flt, sessions, api>>
  /\ UNCHANGED <<environ, fmt, page>>

\* the error of a turn whose settings lack retrieval_query or index_name:
\* the ValueError of line 365 inside the Exception of line 429
CONFIG_ERROR ==
  "Exception: Required settings 'retrieval_query' or 'index_name' are missing."

\* the test of line 364, negated
Configured(settings) == settings.retrieval_query /\ settings.index_name

\* setup_chat that opens the index without looking at the settings
SetupChat_NoCheck(th) ==
  /\ T(th).pc = "setup"
  /\ \E outcome \in {"ok", "llm_raises", "retriever_raises"} :
       LET c1 == Bump(T(th).calls, "llm")
           c2 == Bump(c1, "retriever")
           c3 == Bump(c2, "index")
           mode == settings_map[T(th).skey].mode
       IN CASE outcome = "ok" ->
                 SetTurn(th, [T(th) EXCEPT !.pc = "retrieve", !.calls = c3,
                                           !.mv = TRUE])
            [] outcome = "llm_raises" ->
                 SetTurn(th, [T(th) EXCEPT !.pc = "finish", !.calls = c1,
                                !.exc = "llm",
                                !.env = FailureEnvelope(mode, "Exception")])
            [] outcome = "retriever_raises" ->
                 SetTurn(th, [T(th) EXCEPT !.pc = "finish", !.calls = c3,
                                !.exc = "retriever",
                                !.env = FailureEnvelope(mode, "Exception")])
  /\ UNCHANGED <<store, history_dict, hists, lists, settings_map, nturns, summ, flt, sessions, api>>
  /\ UNCHANGED <<environ, fmt, page>>

\* setup_chat (432-451) inside process_chat_response's try: get_llm, then
\* get_neo4j_retriever and create_document_retriever_chain.
\* initialize_neo4j_vector (354-395) raises before
\* Neo4jVector.from_existing_graph when the settings lack retrieval_query
\* or index_name; every exception ends in the except branch (493-510).
SetupChat(th) ==
  /\ T(th).pc = "setup"
  /\ \E outcome \in {"ok", "llm_raises", "retriever_raises"} :
       LET c1 == Bump(T(th).calls, "llm")
           c2 == Bump(c1, "retriever")
           c3 == Bump(c2, "index")
           settings == settings_map[T(th).skey]
           mode == settings.mode
       IN CASE outcome = "llm_raises" ->
                 SetTurn(th, [T(th) EXCEPT !.pc = "finish", !.calls = c1,
                                !.exc = "llm",
                                !.env = FailureEnvelope(mode, "Exception")])
            [] outcome # "llm_raises" /\ ~Configured(settings) ->
                 SetTurn(th, [T(th) EXCEPT !.pc = "finish", !.calls = c2,
                                !.exc = "config",
                                !.env = FailureEnvelope(mode, CONFIG_ERROR)])
            [] outcome = "ok" /\ Configured(settings) ->
                 SetTurn(th, [T(th) EXCEPT !.pc = "retrieve", !.calls = c3,
                                           !.mv = TRUE])
            [] outcome = "retriever_raises" /\ Configured(settings) ->
                 SetTurn(th, [T(th) EXCEPT !.pc = "finish", !.calls = c3,
                                !.exc = "retriever",
                                !.env = FailureEnvelope(mode, "Exception")])
  /\ UNCHANGED <<store, history_dict, hists, lists, settings_map, nturns, summ, flt, sessions, api>>
  /\ UNCHANGED <<environ, fmt, page>>

\* the branch test that also takes a two-message conversation verbatim
SingleTurn_AtMostTwo(msgs) == Len(msgs) <= 2

\* the condition of the RunnableBranch (339-345):
\* len(x.get("messages", [])) == 1
SingleTurn(msgs) == Len(msgs) = 1

\* the standalone question the model writes from a conversation
STANDALONE_QUESTION == "standalone question"

\* the chain that hands the text of the latest message to the retriever
\* whenever there is one
ChainQuery_NoRewrite(msgs) ==
  IF msgs # <<>> THEN msgs[Len(msgs)].content ELSE STANDALONE_QUESTION

\* the query the chain hands to the compression retriever (339-345):
\* x["messages"][-1].content on the first branch, the output of
\* query_transform_prompt | llm | output_parser on the default branch
ChainQuery(msgs) ==
  IF SingleTurn(msgs) THEN msgs[Len(msgs)].content ELSE STANDALONE_QUESTION

\* retrieval whose exception is not caught but reaches the except branch of
\* process_chat_response
RetrieveDocuments_Propagates(th) ==
  /\ T(th).pc = "retrieve"
  /\ \E outcome \in {"docs", "no_docs", "raises"} :
       LET msgs == lists[T(th).messages]
           c1 == Bump(T(th).calls, "retrieve")
           single == SingleTurn(msgs)
           c2 == IF single THEN c1 ELSE Bump(c1, "rewrite")
           r == [T(th) EXCEPT !.calls = c2,
                              !.rewriteIn = IF single THEN <<>> ELSE msgs,
                              !.query = ChainQuery(msgs)]
       IN CASE outcome = "docs" ->
                 SetTurn(th, [r EXCEPT !.pc = "synth", !.docs = "list"])
            [] outcome = "no_docs" ->
                 SetTurn(th, [r EXCEPT !.pc = "answer", !.docs = "empty",
                                       !.content = NO_DOCS_ANSWER, !.tokens = 0])
            [] outcome = "raises" ->
                 SetTurn(th, [r EXCEPT
                   !.pc = "finish", !.docs = "none", !.exc = "retrieval",
                   !.env = FailureEnvelope(settings_map[T(th).skey].mode,
                                           "Exception")])
  /\ UNCHANGED <<store, history_dict, hists, lists, settings_map, nturns, summ, flt, sessions, api>>
  /\ UNCHANGED <<environ, fmt, page>>

\* retrieve_documents (291-310) over the chain of
\* create_document_retriever_chain (339-345): one message, the question is
\* the query; otherwise the model rewrites the conversation first.  An
\* exception of the chain leaves docs = None.
RetrieveDocuments(th) ==
  /\ T(th).pc = "retrieve"
  /\ \E outcome \in {"docs", "no_docs", "raises"} :
       LET msgs == lists[T(th).messages]
           c1 == Bump(T(th).calls, "retrieve")
           single == SingleTurn(msgs)
           c2 == IF single THEN c1 ELSE Bump(c1, "rewrite")
           r == [T(th) EXCEPT !.calls = c2,
                              !.rewriteIn = IF single THEN <<>> ELSE msgs,
                              !.query = ChainQuery(msgs)]
       IN IF outcome = "docs"
          THEN SetTurn(th, [r EXCEPT !.pc = "synth", !.docs = "list"])
          ELSE SetTurn(th, [r EXCEPT !.pc = "answer",
                                     !.docs = IF outcome = "raises" THEN "none"
                                              ELSE "empty",
                                     !.content = NO_DOCS_ANSWER,
                                     !.tokens = 0])
  /\ UNCHANGED <<store, history_dict, hists, lists, settings_map, nturns, summ, flt, sessions, api>>
  /\ UNCHANGED <<environ, fmt, page>>

\* the branch of process_documents that shapes node_details (265-274),
\* chosen by chat_mode_settings["mode"]
MetadataShape(mode) ==
  IF mode = CHAT_ENTITY_VECTOR_MODE THEN "entitydetails"
  ELSE IF mode = CHAT_GLOBAL_VECTOR_FULLTEXT_MODE THEN "communitydetails"
  ELSE "chunkdetails"

\* synthesis whose exception is degraded to the canned answer, the way a
\* retrieval failure is
ProcessDocuments_Degrades(th) ==
  /\ T(th).pc = "synth"
  /\ \E ok \in BOOLEAN, tok \in TokenCounts :
       LET msgs == lists[T(th).messages]
           r == [T(th) EXCEPT !.calls = Bump(@, "synth"),
                              !.synthIn = SubSeq(msgs, 1, Len(msgs) - 1),
                              !.shape = IF ok
                                        THEN MetadataShape(settings_map[T(th).skey].mode)
                                        ELSE ""]
       IN IF ok
          THEN SetTurn(th, [r EXCEPT !.pc = "answer",
                                     !.content = Answer(T(th).n),
                                     !.tokens = tok])
          ELSE /\ tok = 0
               /\ SetTurn(th, [r EXCEPT !.pc = "answer", !.exc = "synthesis",
                                        !.content = NO_DOCS_ANSWER,
                                        !.tokens = 0])
  /\ UNCHANGED <<store, history_dict, hists, lists, settings_map, nturns, summ, flt, sessions, api>>
  /\ UNCHANGED <<environ, fmt, page>>

\* process_documents that takes the question off the list (messages.pop())
\* where the code copies the list without it
ProcessDocuments_Pops(th) ==
  /\ T(th).pc = "synth"
  /\ \E ok \in BOOLEAN, tok \in TokenCounts :
       LET msgs == lists[T(th).messages]
           r == [T(th) EXCEPT !.calls = Bump(@, "synth"),
                              !.synthIn = SubSeq(msgs, 1, Len(msgs) - 1),
                              !.shape = IF ok
                                        THEN MetadataShape(settings_map[T(th).skey].mode)
                                        ELSE ""]
       IN /\ lists' = [lists EXCEPT ![T(th).messages] =
                         SubSeq(msgs, 1, Len(msgs) - 1)]
          /\ IF ok
             THEN SetTurn(th, [r EXCEPT !.pc = "answer",
                                        !.content = Answer(T(th).n),
                                        !.tokens = tok])
             ELSE /\ tok = 0
                  /\ SetTurn(th, [r EXCEPT
                       !.pc = "finish", !.exc = "synthesis",
                       !.env = FailureEnvelope(settings_map[T(th).skey].mode,
                                               "Exception")])
  /\ UNCHANGED <<store, history_dict, hists, settings_map, nturns, summ, flt, sessions, api>>
  /\ UNCHANGED <<environ, fmt, page>>

\* process_documents (247-289): the model is invoked with messages[:-1];
\* an exception is re-raised into process_chat_response's except branch
ProcessDocuments(th) ==
  /\ T(th).pc = "synth"
  /\ \E ok \in BOOLEAN, tok \in TokenCounts :
       LET msgs == lists[T(th).messages]
           r == [T(th) EXCEPT !.calls = Bump(@, "synth"),
                              !.synthIn = SubSeq(msgs, 1, Len(msgs) - 1),
                              !.shape = IF ok
                                        THEN MetadataShape(settings_map[T(th).skey].mode)
                                        ELSE ""]
       IN IF ok
          THEN SetTurn(th, [r EXCEPT !.pc = "answer",
                                     !.content = Answer(T(th).n),
                                     !.tokens = tok])
          ELSE /\ tok = 0
               /\ SetTurn(th, [r EXCEPT
                    !.pc = "finish", !.exc = "synthesis",
                    !.env = FailureEnvelope(settings_map[T(th).skey].mode,
                                            "Exception")])
  /\ UNCHANGED <<store, history_dict, hists, lists, settings_map, nturns, summ, flt, sessions, api>>
  /\ UNCHANGED <<environ, fmt, page>>

\* create_graph_chain (548-569) as called at line 596.  When building the
\* chain raises, create_graph_chain logs and returns None; unpacking None
\* raises TypeError inside process_graph_response's try, and its except
\* branch reads model_version, which was never bound: UnboundLocalError
\* leaves process_graph_response and QA_RAG.
CreateGraphChain(th) ==
  /\ T(th).pc = "g_create"
  /\ \E built \in BOOLEAN :
       LET c == Bump(T(th).calls, "llm") IN
       IF built
       THEN SetTurn(th, [T(th) EXCEPT !.pc = "g_invoke", !.mv = TRUE,
                                      !.calls = Bump(c, "llm")])
       ELSE SetTurn(th, [T(th) EXCEPT !.pc = "raised", !.calls = c,
                                      !.exc = "graph_chain",
                                      !.err = "UnboundLocalError"])
  /\ UNCHANGED <<store, history_dict, hists, lists, settings_map, nturns, summ, flt, sessions, api>>
  /\ UNCHANGED <<environ, fmt, page>>

\* get_graph_response (571-592) as called at line 598.  When invoking the
\* chain raises it returns None, graph_response.get raises AttributeError
\* and the except branch (625-639), model_version now bound, answers.
GetGraphResponse(th) ==
  /\ T(th).pc = "g_invoke"
  /\ \E ok \in BOOLEAN :
       LET c == Bump(T(th).calls, "graph") IN
       IF ok
       THEN SetTurn(th, [T(th) EXCEPT !.pc = "answer", !.calls = c,
                                      !.content = Answer(T(th).n)])
       ELSE SetTurn(th, [T(th) EXCEPT !.pc = "finish", !.calls = c,
                           !.exc = "graph_invoke",
                           !.env = FailureEnvelope(CHAT_GRAPH_MODE,
                                                   "AttributeError")])
  /\ UNCHANGED <<store, history_dict, hists, lists, settings_map, nturns, summ, flt, sessions, api>>
  /\ UNCHANGED <<environ, fmt, page>>

\* the step that goes on to start the thread without the append
AppendAnswer_Skipped(th) ==
  /\ T(th).pc = "answer"
  /\ SetTurn(th, [T(th) EXCEPT !.pc = "spawn"])
  /\ UNCHANGED <<store, history_dict, hists, lists, settings_map, nturns, summ, flt, sessions, api>>
  /\ UNCHANGED <<environ, fmt, page>>

\* messages.append(AIMessage(content)) (467-468, 601-603)
AppendAnswer(th) ==
  /\ T(th).pc = "answer"
  /\ lists' = [lists EXCEPT ![T(th).messages] = Append(@, AIMessage(T(th).content))]
  /\ SetTurn(th, [T(th) EXCEPT !.pc = "spawn"])
  /\ UNCHANGED <<store, history_dict, hists, settings_map, nturns, summ, flt, sessions, api>>
  /\ UNCHANGED <<environ, fmt, page>>

\* threading.Thread(target=summarize_and_log, args=(history, messages, llm))
\* .start(), then the result dict (470-491, 605-623)
StartSummarizer(th) ==
  /\ T(th).pc = "spawn"
  /\ summ' = [summ EXCEPT ![T(th).n] =
                [NoSumm EXCEPT !.pc = "start", !.hist = T(th).hist,
                               !.messages = T(th).messages]]
  /\ SetTurn(th, [T(th) EXCEPT
        !.pc = "finish",
        !.calls = Bump(@, "summ"),
        !.env = [session_id |-> "", message |-> T(th).content, error |-> "",
                 total_tokens |-> T(th).tokens,
                 mode |-> IF T(th).mode = CHAT_GRAPH_MODE THEN CHAT_GRAPH_MODE
                          ELSE settings_map[T(th).skey].mode]])
  /\ UNCHANGED <<store, history_dict, hists, lists, settings_map, nturns, flt, sessions, api>>
  /\ UNCHANGED <<environ, fmt, page>>

\* the return that first joins the summarizer thread the call started
ReturnResult_Joins(th) ==
  /\ T(th).pc = "finish"
  /\ summ[T(th).n].pc \in {"none", "done"}
  /\ SetTurn(th, [T(th) EXCEPT !.pc = "returned",
                               !.env = [@ EXCEPT !.session_id = T(th).sid]])
  /\ UNCHANGED <<store, history_dict, hists, lists, settings_map, nturns, summ, flt, sessions, api>>
  /\ UNCHANGED <<environ, fmt, page>>

\* the return that hands the envelope back as the branch built it
ReturnResult_AsBuilt(th) ==
  /\ T(th).pc = "finish"
  /\ SetTurn(th, [T(th) EXCEPT !.pc = "returned"])
  /\ UNCHANGED <<store, history_dict, hists, lists, settings_map, nturns, summ, flt, sessions, api>>
  /\ UNCHANGED <<environ, fmt, page>>

\* result["session_id"] = session_id; return result (863-865)
ReturnResult(th) ==
  /\ T(th).pc = "finish"
  /\ SetTurn(th, [T(th) EXCEPT !.pc = "returned",
                               !.env = [@ EXCEPT !.session_id = T(th).sid]])
  /\ UNCHANGED <<store, history_dict, hists, lists, settings_map, nturns, summ, flt, sessions, api>>
  /\ UNCHANGED <<environ, fmt, page>>

-----------------------------------------------------------------------------
(* summarize_and_log (512-546), run by the thread turn n started *)

S(n) == summ[n]
SetSumm(n, r) == summ' = [summ EXCEPT ![n] = r]
Finished(r, ret) == [r EXCEPT !.pc = "done", !.ret = ret, !.lock = 0]

\* summarize_and_log without the test of line 514: the model is called on
\* whatever sequence it is given
SumInvoke_NoEmptyCheck(n) ==
  /\ S(n).pc = "start"
  /\ LET stored == lists[S(n).messages]
         r == [S(n) EXCEPT !.pre = HistSeq(hists[S(n).hist])]
     IN \E ok \in BOOLEAN :
          LET c == [r EXCEPT !.sumIn = stored, !.calls = @ + 1]
          IN IF ok
             THEN SetSumm(n, [c EXCEPT !.pc = "clear"])
             ELSE SetSumm(n, Finished(c, "false"))
  /\ UNCHANGED <<store, history_dict, hists, lists, settings_map, nturns, turn, flt, sessions, api>>
  /\ UNCHANGED <<environ, fmt, page>>

\* summarize_and_log that takes its lock before it calls the model and
\* keeps it until it returns
SumInvoke_UnderLock(n) ==
  /\ S(n).pc = "start"
  /\ LET stored == lists[S(n).messages]
         r == [S(n) EXCEPT !.pre = HistSeq(hists[S(n).hist])]
     IN IF stored = <<>>
        THEN SetSumm(n, Finished(r, "false"))
        ELSE \E ok \in BOOLEAN :
               LET c == [r EXCEPT !.sumIn = stored, !.calls = @ + 1]
               IN IF ok
                  THEN SetSumm(n, [c EXCEPT !.pc = "clear", !.lock = n])
                  ELSE SetSumm(n, Finished(c, "false"))
  /\ UNCHANGED <<store, history_dict, hists, lists, settings_map, nturns, turn, flt, sessions, api>>
  /\ UNCHANGED <<environ, fmt, page>>

\* lines 514-532: nothing to summarize, or the model call
SumInvoke(n) ==
  /\ S(n).pc = "start"
  /\ LET stored == lists[S(n).messages]
         r == [S(n) EXCEPT !.pre = HistSeq(hists[S(n).hist])]
     IN IF stored = <<>>
        THEN SetSumm(n, Finished(r, "false"))
        ELSE \E ok \in BOOLEAN :
               LET c == [r EXCEPT !.sumIn = stored, !.calls = @ + 1]
               IN IF ok
                  THEN SetSumm(n, [c EXCEPT !.pc = "clear"])
                  ELSE SetSumm(n, Finished(c, "false"))
  /\ UNCHANGED <<store, history_dict, hists, lists, settings_map, nturns, turn, flt, sessions, api>>
  /\ UNCHANGED <<environ, fmt, page>>

\* the lock object `with threading.Lock():` creates at line 534: a new one
\* on every execution, here named after the summarizer that creates it
NewLock(n) == n

\* lines 534-535: acquire the lock just created, then history.clear().
\* ChatMessageHistory.clear rebinds messages to a new list;
\* SafeNeo4jChatMessageHistory.clear (700-707) clears the store and caches
\* an empty view, or logs the store's exception and changes nothing.
SumClear(n) ==
  /\ S(n).pc = "clear"
  /\ \A m \in TurnIds \ {n} : S(m).lock # NewLock(n)
  /\ LET h == hists[S(n).hist]
         newl == Len(lists) + 1
         r == [S(n) EXCEPT !.pc = "marker", !.lock = NewLock(n)]
     IN IF h.kind = "mem"
        THEN /\ lists' = Append(lists, <<>>)
             /\ hists' = [hists EXCEPT ![S(n).hist].list = newl]
             /\ SetSumm(n, r)
             /\ UNCHANGED store
        ELSE \E cleared \in BOOLEAN :
               IF cleared
               THEN /\ store' = [store EXCEPT ![h.sid] = <<>>]
                    /\ lists' = Append(lists, <<>>)
                    /\ hists' = [hists EXCEPT ![S(n).hist] =
                                   [h EXCEPT !.list = newl, !.validated = TRUE]]
                    /\ SetSumm(n, r)
               ELSE /\ SetSumm(n, r)
                    /\ UNCHANGED <<store, lists, hists>>
  /\ UNCHANGED <<history_dict, settings_map, nturns, turn, flt, sessions, api>>
  /\ UNCHANGED <<environ, fmt, page>>

\* line 536: history.add_user_message(marker).  The in-memory history
\* appends a HumanMessage to its current list.  SafeNeo4jChatMessageHistory
\* (641-707) defines no add_user_message: AttributeError, caught at 544.
SumAddMarker(n) ==
  /\ S(n).pc = "marker"
  /\ LET h == hists[S(n).hist] IN
     IF h.kind = "mem"
     THEN /\ lists' = [lists EXCEPT ![h.list] =
                         Append(@, HumanMessage(SUMMARY_MARKER))]
          /\ SetSumm(n, [S(n) EXCEPT !.pc = "summary"])
     ELSE /\ SetSumm(n, Finished(S(n), "false"))
          /\ UNCHANGED lists
  /\ UNCHANGED <<store, history_dict, hists, settings_map, nturns, turn, flt, sessions, api>>
  /\ UNCHANGED <<environ, fmt, page>>

\* lines 537-542: history.add_message(summary_message), release, return True
SumAddSummary(n) ==
  /\ S(n).pc = "summary"
  /\ LET h == hists[S(n).hist] IN
       lists' = [lists EXCEPT ![h.list] = Append(@, AIMessage(Summary(n)))]
  /\ SetSumm(n, Finished(S(n), "true"))
  /\ UNCHANGED <<store, history_dict, hists, settings_map, nturns, turn, flt, sessions, api>>
  /\ UNCHANGED <<environ, fmt, page>>

-----------------------------------------------------------------------------
(* The interface of SafeNeo4jChatMessageHistory (641-707), called directly *)

\* the record of a call: what was called, on what, and what came back
Called(op, sid, arg, status, message, result, raw) ==
  [op |-> op, sid |-> sid, arg |-> arg, how |-> "", status |-> status,
   message |-> message, result |-> result, raw |-> raw, nops |-> api.nops + 1]

\* the messages property (685-688): the cached view, or a new validation
HandleMessages(h) ==
  /\ api.nops < MaxOps
  /\ LET hd == hists[h]
         raw == store[hd.sid]
         newl == Len(lists) + 1
     IN IF hd.validated
        THEN /\ api' = Called("messages", hd.sid, "cached", "ok", "",
                              lists[hd.list], raw)
             /\ UNCHANGED <<hists, lists>>
        ELSE \E outcome \in {"read", "noattr", "raise"} :
               LET view == ValidatedView(raw, outcome)
               IN /\ lists' = Append(lists, view)
                  /\ hists' = [hists EXCEPT ![h] =
                                 [hd EXCEPT !.list = newl, !.validated = TRUE]]
                  /\ api' = Called("messages", hd.sid, outcome, "ok", "",
                                   view, raw)
  /\ UNCHANGED <<store, history_dict, settings_map, nturns, turn, summ, flt,
                 sessions>>
  /\ UNCHANGED <<environ, fmt, page>>

\* add_message that keeps the cached view after a successful write
HandleAddMessage_KeepsCache(h) ==
  /\ api.nops < MaxOps
  /\ LET hd == hists[h] IN
     \E written \in BOOLEAN :
       /\ IF written
          THEN /\ store' = [store EXCEPT ![hd.sid] = Append(@, NewMessage)]
               /\ UNCHANGED hists
          ELSE UNCHANGED <<store, hists>>
       /\ api' = Called("add_message", hd.sid,
                        IF written THEN "written" ELSE "store_raises",
                        "ok", "", <<>>, store[hd.sid])
  /\ UNCHANGED <<history_dict, lists, settings_map, nturns, turn, summ, flt,
                 sessions>>
  /\ UNCHANGED <<environ, fmt, page>>

\* add_message (690-698): the store appends the message and the cache is
\* dropped; when the store raises, the exception is logged and nothing
\* changes
HandleAddMessage(h) ==
  /\ api.nops < MaxOps
  /\ LET hd == hists[h] IN
     \E written \in BOOLEAN :
       /\ IF written
          THEN /\ store' = [store EXCEPT ![hd.sid] = Append(@, NewMessage)]
               /\ hists' = [hists EXCEPT ![h] =
                              [hd EXCEPT !.list = 0, !.validated = FALSE]]
          ELSE UNCHANGED <<store, hists>>
       /\ api' = Called("add_message", hd.sid,
                        IF written THEN "written" ELSE "store_raises",
                        "ok", "", <<>>, store[hd.sid])
  /\ UNCHANGED <<history_dict, lists, settings_map, nturns, turn, summ, flt,
                 sessions>>
  /\ UNCHANGED <<environ, fmt, page>>

\* clear that sets the validated flag and leaves the cached view as it was
HandleClear_FlagOnly(h) ==
  /\ api.nops < MaxOps
  /\ LET hd == hists[h] IN
     \E cleared \in BOOLEAN :
       /\ IF cleared
          THEN /\ store' = [store EXCEPT ![hd.sid] = <<>>]
               /\ hists' = [hists EXCEPT ![h] = [hd EXCEPT !.validated = TRUE]]
          ELSE UNCHANGED <<store, hists>>
       /\ api' = Called("clear", hd.sid,
                        IF cleared THEN "cleared" ELSE "store_raises",
                        "ok", "", <<>>, store[hd.sid])
  /\ UNCHANGED <<history_dict, lists, settings_map, nturns, turn, summ, flt,
                 sessions>>
  /\ UNCHANGED <<environ, fmt, page>>

\* clear (700-707): the store is cleared and an empty view cached; when
\* the store raises, the exception is logged and nothing changes
HandleClear(h) ==
  /\ api.nops < MaxOps
  /\ LET hd == hists[h]
         newl == Len(lists) + 1
     IN \E cleared \in BOOLEAN :
          /\ IF cleared
             THEN /\ store' = [store EXCEPT ![hd.sid] = <<>>]
                  /\ lists' = Append(lists, <<>>)
                  /\ hists' = [hists EXCEPT ![h] =
                                 [hd EXCEPT !.list = newl, !.validated = TRUE]]
             ELSE UNCHANGED <<store, lists, hists>>
          /\ api' = Called("clear", hd.sid,
                           IF cleared THEN "cleared" ELSE "store_raises",
                           "ok", "", <<>>, store[hd.sid])
  /\ UNCHANGED <<history_dict, settings_map, nturns, turn, summ, flt, sessions>>
  /\ UNCHANGED <<environ, fmt, page>>

\* the methods of the chat-history interface the class does not define
MissingMethods == {"add_user_message", "add_ai_message", "add_system_message"}

\* a call of a method the class (641-707) does not define: the attribute
\* lookup raises AttributeError to the caller
HandleMissingMethod(h) ==
  /\ api.nops < MaxOps
  /\ \E name \in MissingMethods :
       api' = Called(name, hists[h].sid, "", "raised", "AttributeError", <<>>,
                     store[hists[h].sid])
  /\ UNCHANGED <<store, history_dict, hists, lists, settings_map, nturns, turn,
                 summ, flt, sessions>>
  /\ UNCHANGED <<environ, fmt, page>>

\* validate_and_clean_messages(history) (745-785) on the raw records
ValidateAndClean(h) ==
  /\ api.nops < MaxOps
  /\ LET raw == store[hists[h].sid] IN
     \E outcome \in {"read", "noattr", "raise"} :
       api' = Called("validate_and_clean_messages", hists[h].sid, outcome, "ok",
                     "", ValidateAndCleanMessages(raw, outcome), raw)
  /\ UNCHANGED <<store, history_dict, hists, lists, settings_map, nturns, turn,
                 summ, flt, sessions>>
  /\ UNCHANGED <<environ, fmt, page>>

-----------------------------------------------------------------------------
(* The history API: clear_chat_history, get_chat_history_by_session_id,
   delete_chat_history *)

CLEARED == "The chat history has been cleared."
CLEAR_FAILED == "Failed to clear chat history."
NOT_FOUND == "Failed to retrieve chat history: Chat history not found for session"
RETRIEVE_FAILED == "Failed to retrieve chat history"
DELETED == "Chat history deleted successfully"
DELETE_FAILED == "Failed to delete chat history"

\* a call of the API: its argument, how the store behaved, and the result
ApiCalled(op, sid, arg, how, status, message, result, raw) ==
  [Called(op, sid, arg, status, message, result, raw) EXCEPT !.how = how]

\* the default of the parameter `local` with the opposite value
LOCAL_DEFAULT_True == TRUE

\* def clear_chat_history(graph, session_id, local=False)
LOCAL_DEFAULT == FALSE

\* the third argument of a call: left out, local=True or local=False
ClearArgs == {"omitted", "local", "durable"}

\* clear_chat_history whose handle lets the exception of the store's clear
\* through to the except branch
ClearChatHistory_ClearPropagates ==
  /\ api.nops < MaxOps
  /\ \E sid \in Sessions, arg \in ClearArgs :
       LET local == IF arg = "omitted" THEN LOCAL_DEFAULT ELSE arg = "local"
           newh == Len(hists) + 1
           newl == Len(lists) + 1
       IN IF ~local
          THEN \E how \in {"constructor_raises", "store_raises", "cleared"} :
                 /\ store' = IF how = "cleared"
                             THEN [store EXCEPT ![sid] = <<>>] ELSE store
                 /\ api' = ApiCalled("clear_chat_history", sid, arg, how, "ok",
                                     IF how = "cleared" THEN CLEARED
                                     ELSE CLEAR_FAILED,
                                     <<>>, store[sid])
                 /\ UNCHANGED <<history_dict, hists, lists>>
          ELSE /\ lists' = Append(lists, <<>>)
               /\ IF history_dict[sid] = 0
                  THEN /\ hists' = Append(hists, MemHistory(newl))
                       /\ history_dict' = [history_dict EXCEPT ![sid] = newh]
                  ELSE /\ hists' = [hists EXCEPT ![history_dict[sid]].list = newl]
                       /\ UNCHANGED history_dict
               /\ api' = ApiCalled("clear_chat_history", sid, arg, "volatile",
                                   "ok", CLEARED, <<>>, store[sid])
               /\ UNCHANGED store
  /\ UNCHANGED <<settings_map, nturns, turn, summ, flt, sessions>>
  /\ UNCHANGED <<environ, fmt, page>>

\* clear_chat_history (121-146).  not local: a durable handle is built
\* (its constructor may raise, caught at 139) and cleared
\* (SafeNeo4jChatMessageHistory.clear, 700-707, logs the store's exception
\* and returns).  local: the in-process history of the session, created if
\* absent, is cleared: ChatMessageHistory.clear binds a new empty list.
ClearChatHistory ==
  /\ api.nops < MaxOps
  /\ \E sid \in Sessions, arg \in ClearArgs :
       LET local == IF arg = "omitted" THEN LOCAL_DEFAULT ELSE arg = "local"
           newh == Len(hists) + 1
           newl == Len(lists) + 1
       IN IF ~local
          THEN \E how \in {"constructor_raises", "store_raises", "cleared"} :
                 /\ store' = IF how = "cleared"
                             THEN [store EXCEPT ![sid] = <<>>] ELSE store
                 /\ api' = ApiCalled("clear_chat_history", sid, arg, how, "ok",
                                     IF how = "constructor_raises"
                                     THEN CLEAR_FAILED ELSE CLEARED,
                                     <<>>, store[sid])
                 /\ UNCHANGED <<history_dict, hists, lists>>
          ELSE /\ lists' = Append(lists, <<>>)
               /\ IF history_dict[sid] = 0
                  THEN /\ hists' = Append(hists, MemHistory(newl))
                       /\ history_dict' = [history_dict EXCEPT ![sid] = newh]
                  ELSE /\ hists' = [hists EXCEPT ![history_dict[sid]].list = newl]
                       /\ UNCHANGED history_dict
               /\ api' = ApiCalled("clear_chat_history", sid, arg, "volatile",
                                   "ok", CLEARED, <<>>, store[sid])
               /\ UNCHANGED store
  /\ UNCHANGED <<settings_map, nturns, turn, summ, flt, sessions>>
  /\ UNCHANGED <<environ, fmt, page>>

\* the dicts built from the rows of messages_query (978-987)
MessageDicts(raw) ==
  [i \in 1..Len(raw) |-> [type |-> raw[i].type, content |-> raw[i].content]]

\* get_chat_history_by_session_id (939-1004): no row for the session node
\* raises 'not found'; every exception, that one and the store's, is
\* re-raised as 'Failed to retrieve chat history: ...'
GetChatHistoryBySessionId ==
  /\ api.nops < MaxOps
  /\ \E sid \in Sessions, reachable \in BOOLEAN :
       api' = IF ~reachable
              THEN ApiCalled("get_chat_history_by_session_id", sid, "",
                             "store_raises", "raised", RETRIEVE_FAILED, <<>>,
                             store[sid])
              ELSE IF sid \notin sessions
              THEN ApiCalled("get_chat_history_by_session_id", sid, "",
                             "answered", "raised", NOT_FOUND, <<>>, store[sid])
              ELSE ApiCalled("get_chat_history_by_session_id", sid, "",
                             "answered", "ok", "", MessageDicts(store[sid]),
                             store[sid])
  /\ UNCHANGED <<store, history_dict, hists, lists, settings_map, nturns, turn,
                 summ, flt, sessions>>
  /\ UNCHANGED <<environ, fmt, page>>

\* the delete that fails with 'not found' on a session without a record
DeleteChatHistory_NotFound ==
  /\ api.nops < MaxOps
  /\ \E sid \in Sessions, reachable \in BOOLEAN :
       LET existed == IF sid \in sessions THEN "existed" ELSE "absent" IN
       IF ~reachable
       THEN /\ api' = ApiCalled("delete_chat_history", sid, existed,
                                "store_raises", "raised", DELETE_FAILED, <<>>,
                                store[sid])
            /\ UNCHANGED <<store, sessions>>
       ELSE IF sid \notin sessions
       THEN /\ api' = ApiCalled("delete_chat_history", sid, existed,
                                "answered", "raised", NOT_FOUND, <<>>,
                                store[sid])
            /\ UNCHANGED <<store, sessions>>
       ELSE IF store[sid] # <<>>
       THEN /\ api' = ApiCalled("delete_chat_history", sid, existed,
                                "still_has_relationships", "raised",
                                DELETE_FAILED, <<>>, store[sid])
            /\ UNCHANGED <<store, sessions>>
       ELSE /\ sessions' = sessions \ {sid}
            /\ api' = ApiCalled("delete_chat_history", sid, existed, "answered",
                                "ok", DELETED, <<>>, store[sid])
            /\ UNCHANGED store
  /\ UNCHANGED <<history_dict, hists, lists, settings_map, nturns, turn, summ, flt>>
  /\ UNCHANGED <<environ, fmt, page>>

\* delete_chat_history (1006-1038).  The query (1021-1025) is
\*   MATCH (s:__Session__ ...) OPTIONAL MATCH (s)-[:HAS_MESSAGE]->(m) DELETE m, s
\* a plain DELETE, not DETACH DELETE, that names no relationship: the store
\* refuses to delete a node that still has relationships, so for a session
\* that has messages the query raises and nothing is deleted.  Without
\* messages m is null and the session node is deleted; without a session
\* node no row matches.  Every exception is re-raised at 1036-1038.
DeleteChatHistory ==
  /\ api.nops < MaxOps
  /\ \E sid \in Sessions, reachable \in BOOLEAN :
       LET existed == IF sid \in sessions THEN "existed" ELSE "absent" IN
       IF ~reachable
       THEN /\ api' = ApiCalled("delete_chat_history", sid, existed,
                                "store_raises", "raised", DELETE_FAILED, <<>>,
                                store[sid])
            /\ UNCHANGED <<store, sessions>>
       ELSE IF sid \in sessions /\ store[sid] # <<>>
       THEN /\ api' = ApiCalled("delete_chat_history", sid, existed,
                                "still_has_relationships", "raised",
                                DELETE_FAILED, <<>>, store[sid])
            /\ UNCHANGED <<store, sessions>>
       ELSE /\ sessions' = sessions \ {sid}
            /\ api' = ApiCalled("delete_chat_history", sid, existed, "answered",
                                "ok", DELETED, <<>>, store[sid])
            /\ UNCHANGED store
  /\ UNCHANGED <<history_dict, hists, lists, settings_map, nturns, turn, summ, flt>>
  /\ UNCHANGED <<environ, fmt, page>>

-----------------------------------------------------------------------------
(* EnvironmentConfig (environment_config.py) *)

\* os.environ.get(key) of a key that is not set
NoValue == "None"
EnvKeys == {"TEST_VAR", "OTHER_VAR"}
FROM_SYSTEM == "from_system"
FROM_ENV_FILE == "from_env_file"
DEFAULT_VALUE == "default_value"
\* an .env file with the definitions defs, and a path where no file exists
EnvFile(defs) == [exists |-> TRUE, defs |-> defs]
NoFile == [exists |-> FALSE, defs |-> [k \in EnvKeys |-> NoValue]]
NoCall == [key |-> "", default |-> NoValue, required |-> FALSE, status |-> "",
           result |-> NoValue]

\* load_dotenv(path, override): every key the file defines is set in
\* os.environ, unless it is set there already and override is false
LoadDotenv(os, file, override) ==
  [k \in EnvKeys |->
     IF file[k] # NoValue /\ (override \/ os[k] = NoValue) THEN file[k]
     ELSE os[k]]

\* the load that lets the file override what the system environment sets
LoadEnvironment_Override(e, raises) ==
  IF ~e.file.exists THEN [e EXCEPT !.loaded = TRUE]
  ELSE IF raises THEN [e EXCEPT !.loaded = FALSE]
  ELSE [e EXCEPT !.os = LoadDotenv(e.os, e.file.defs, TRUE), !.loaded = TRUE]

\* _load_environment (31-46): the file, when it exists, is loaded with
\* override=False; an exception of the load leaves _loaded False
LoadEnvironment(e, raises) ==
  IF ~e.file.exists THEN [e EXCEPT !.loaded = TRUE]
  ELSE IF raises THEN [e EXCEPT !.loaded = FALSE]
  ELSE [e EXCEPT !.os = LoadDotenv(e.os, e.file.defs, FALSE), !.loaded = TRUE]

\* EnvironmentConfig(env_file_path) (20-29)
EnvConstruct ==
  /\ environ.phase = "start"
  /\ \E raises \in BOOLEAN :
       environ' = [LoadEnvironment(environ, raises) EXCEPT !.phase = "ready"]
  /\ UNCHANGED <<store, history_dict, hists, lists, settings_map, nturns, turn,
                 summ, flt, sessions, api, fmt, page>>

\* get(key, default, required) (48-83)
EnvGet ==
  /\ environ.phase \in {"ready", "got"}
  /\ \E key \in EnvKeys, default \in {NoValue, DEFAULT_VALUE},
        required \in BOOLEAN, raises \in BOOLEAN :
       LET e == IF environ.os[key] = NoValue /\ ~environ.loaded
                THEN LoadEnvironment(environ, raises) ELSE environ
           value == e.os[key]
           done(status, result) ==
             [e EXCEPT !.phase = "got",
                       !.call = [key |-> key, default |-> default,
                                 required |-> required, status |-> status,
                                 result |-> result]]
       IN environ' = IF value # NoValue THEN done("ok", value)
                     ELSE IF required THEN done("ValueError", NoValue)
                     ELSE done("ok", default)
  /\ UNCHANGED <<store, history_dict, hists, lists, settings_map, nturns, turn,
                 summ, flt, sessions, api, fmt, page>>

-----------------------------------------------------------------------------
(* format_documents (199-245) *)

\* prompt_token_cutoff = 4 (line 200)
PROMPT_TOKEN_CUTOFF == 4

\* the cutoffs in force: the default, or the value CHAT_TOKEN_CUT_OFF holds
\* for the model (201-204), here one that cuts
Cutoffs == {1, PROMPT_TOKEN_CUTOFF}

\* an entry of communitydetails: its community id and the rest of it; an
\* entry may come without the 'id' key
CommunityEntry(id, rest) == [has_id |-> TRUE, id |-> id, rest |-> rest]
NoIdEntry == [has_id |-> FALSE, id |-> "", rest |-> "x"]
CommunityEntries ==
  {CommunityEntry("c1", "x"), CommunityEntry("c1", "y"),
   CommunityEntry("c2", "x"), NoIdEntry}

\* a retrieved document: its query_similarity_score and, when its metadata
\* has the key, its communitydetails
Scores == {1, 2}
Document(score, has, details) ==
  [score |-> score, has_communities |-> has, communitydetails |-> details]
Documents ==
  {Document(sc, TRUE, d) :
     sc \in Scores, d \in SeqsUpTo(CommunityEntries, MaxEntries)}
    \cup {Document(sc, FALSE, <<>>) : sc \in Scores}

\* d put into a sequence sorted by descending score, after the documents
\* that score as much or more
RECURSIVE InsertByScore(_, _)
InsertByScore(d, sorted) ==
  IF sorted = <<>> THEN <<d>>
  ELSE IF Head(sorted).score >= d.score
       THEN <<Head(sorted)>> \o InsertByScore(d, Tail(sorted))
       ELSE <<d>> \o sorted

\* sorted(documents, key=score, reverse=True) (line 206): descending, and
\* documents of equal score keep their order
RECURSIVE SortedDocuments(_)
SortedDocuments(docs) ==
  IF docs = <<>> THEN <<>>
  ELSE InsertByScore(docs[Len(docs)],
                     SortedDocuments(SubSeq(docs, 1, Len(docs) - 1)))

\* sorted_documents[:prompt_token_cutoff] (line 207)
CutOff(docs, cutoff) ==
  SubSeq(docs, 1, IF Len(docs) < cutoff THEN Len(docs) ELSE cutoff)

\* entry['id'] raises KeyError for some entry of the document
RaisesKeyError(doc) ==
  \E i \in 1..Len(doc.communitydetails) : ~doc.communitydetails[i].has_id

\* lines 229-232: the entries of the document whose id no earlier document
\* contributed
NewEntries(doc, global_communities) ==
  LET existing_ids ==
        {global_communities[i].id : i \in 1..Len(global_communities)}
      fresh(entry) == entry.id \notin existing_ids
  IN SelectSeq(doc.communitydetails, fresh)

\* the loop over the sorted documents (214-243), as far as
\* global_communities goes; a document whose formatting raises is logged
\* and contributes nothing
RECURSIVE GlobalCommunities(_, _)
GlobalCommunities(docs, global_communities) ==
  IF docs = <<>> THEN global_communities
  ELSE LET doc == Head(docs) IN
       IF ~doc.has_communities \/ RaisesKeyError(doc)
       THEN GlobalCommunities(Tail(docs), global_communities)
       ELSE GlobalCommunities(Tail(docs),
              global_communities \o NewEntries(doc, global_communities))

\* the documents that reach formatted_docs
Formatted(docs) ==
  LET ok(doc) == doc.has_communities => ~RaisesKeyError(doc)
  IN SelectSeq(docs, ok)

\* format_documents(documents, model, chat_mode_settings)
FormatDocuments ==
  /\ fmt.phase = "start"
  /\ LET sorted_documents ==
           CutOff(SortedDocuments(fmt.documents), fmt.cutoff)
     IN fmt' = [fmt EXCEPT
                  !.phase = "done",
                  !.sorted = sorted_documents,
                  !.formatted = Formatted(sorted_documents),
                  !.communities = GlobalCommunities(sorted_documents, <<>>)]
  /\ UNCHANGED <<store, history_dict, hists, lists, settings_map, nturns, turn,
                 summ, flt, sessions, api, environ, page>>

-----------------------------------------------------------------------------
(* get_chat_histories (867-937) *)

LIST_FAILED == "Failed to retrieve chat histories"

\* the rows the query returns (883-894): the sessions after SKIP $offset,
\* at most LIMIT $limit of them
RowsReturned(total_count, limit, offset) ==
  LET left == IF offset >= total_count THEN 0 ELSE total_count - offset
  IN IF left < limit THEN left ELSE limit

\* the pagination block (915-930)
Pagination(total_count, limit, offset) ==
  [total_count |-> total_count,
   total_pages |-> IF limit > 0 THEN (total_count + limit - 1) \div limit ELSE 0,
   current_page |-> IF limit > 0 THEN (offset \div limit) + 1 ELSE 1,
   limit |-> limit,
   offset |-> offset,
   has_next |-> offset + limit < total_count,
   has_previous |-> offset > 0]

\* get_chat_histories(graph, limit, offset).  The store raises when it
\* cannot be reached and when SKIP is given a negative number; every
\* exception is re-raised at 935-937.
GetChatHistories ==
  /\ page.phase = "start"
  /\ \E reachable \in BOOLEAN :
       IF ~reachable \/ page.offset < 0
       THEN page' = [page EXCEPT !.phase = "done", !.status = "raised",
                                 !.message = LIST_FAILED]
       ELSE page' = [page EXCEPT
                       !.phase = "done", !.status = "ok",
                       !.chat_histories =
                          RowsReturned(page.total_count, page.limit, page.offset),
                       !.pagination =
                          Pagination(page.total_count, page.limit, page.offset)]
  /\ UNCHANGED <<store, history_dict, hists, lists, settings_map, nturns, turn,
                 summ, flt, sessions, api, environ, fmt>>

-----------------------------------------------------------------------------
(* Specifications *)

\* the steps of a call after its inputs are fixed
CallStep(th) ==
  \/ LoadMessages(th)
  \/ GetChatModeSettings(th)
  \/ SetupChat(th)
  \/ RetrieveDocuments(th)
  \/ ProcessDocuments(th)
  \/ CreateGraphChain(th)
  \/ GetGraphResponse(th)
  \/ AppendAnswer(th)
  \/ StartSummarizer(th)
  \/ ReturnResult(th)

SummarizerStep(n) ==
  \/ SumInvoke(n)
  \/ SumClear(n)
  \/ SumAddMarker(n)
  \/ SumAddSummary(n)

\* Spec: one request thread issues MaxTurns calls, one after another, with
\* any session, durability, mode and filter; the summarizer of a call runs
\* beside the calls that follow it.
Next ==
  \/ nturns < MaxTurns /\ CreateHistory(MainThread, Sessions, BOOLEAN)
  \/ AppendQuestion(MainThread, Modes)
  \/ ParseAndGate(MainThread, TurnFilters)
  \/ CallStep(MainThread)
  \/ \E n \in TurnIds : SummarizerStep(n)

Spec == Init /\ [][Next]_vars

\* SpecConc: MaxThreads request threads each run one call on the volatile
\* history of session s1 at the same time, beside their summarizers.
ConcModes == {CHAT_VECTOR_MODE, CHAT_GRAPH_MODE}

InitConc == Init /\ store = EmptyStore

NextConc ==
  \/ \E th \in Threads :
       \/ T(th).pc = "idle" /\ CreateHistory(th, {"s1"}, {FALSE})
       \/ AppendQuestion(th, ConcModes)
       \/ ParseAndGate(th, {NoneInput})
       \/ CallStep(th)
  \/ \E n \in TurnIds : SummarizerStep(n)

SpecConc == InitConc /\ [][NextConc]_vars

\* SpecPending: session s1 has a volatile history that one answered call
\* left, and the summarizer that call started has not yet got its summary
\* from the model; the request thread issues MaxTurns more calls on s1, in
\* mode vector or graph and without a filter.
PendingTurn == 1

\* the summarizer threads that get processor time: the pending one and the
\* one the first new call starts
ScheduledSummarizers == {PendingTurn, PendingTurn + 1}

\* the question and the answer of the pending call
PendingConversation ==
  <<HumanMessage(Question(PendingTurn)), AIMessage(Answer(PendingTurn))>>

InitPending ==
  /\ store = EmptyStore
  /\ history_dict = [sid \in Sessions |-> IF sid = "s1" THEN 1 ELSE 0]
  /\ hists = <<MemHistory(1)>>
  /\ lists = <<PendingConversation>>
  /\ settings_map = CHAT_MODE_CONFIG_MAP
  /\ nturns = PendingTurn
  /\ turn = [th \in Threads |-> IdleTurn]
  /\ summ = [n \in TurnIds |->
               IF n = PendingTurn
               THEN [NoSumm EXCEPT !.pc = "start", !.hist = 1, !.messages = 1]
               ELSE NoSumm]
  /\ flt = NoFilter
  /\ sessions = {}
  /\ api = NoApi
  /\ environ = NoEnviron
  /\ fmt = NoFormat
  /\ page = NoPage

NextPending ==
  \/ nturns < PendingTurn + MaxTurns /\ CreateHistory(MainThread, {"s1"}, {FALSE})
  \/ AppendQuestion(MainThread, ConcModes)
  \/ ParseAndGate(MainThread, {NoneInput})
  \/ CallStep(MainThread)
  \/ \E n \in ScheduledSummarizers : SummarizerStep(n)

SpecPending == InitPending /\ [][NextPending]_vars

\* SpecChain: retrieve_documents is called once, with the chain of
\* create_document_retriever_chain, on any sequence of up to MaxMsgs messages,
\* the empty one included.
ChainMessages ==
  {HumanMessage(Question(1)), AIMessage(Answer(1)), HumanMessage(SUMMARY_MARKER)}

InitChain ==
  /\ store = EmptyStore
  /\ history_dict = [sid \in Sessions |-> 0]
  /\ hists = <<>>
  /\ lists \in {<<msgs>> : msgs \in SeqsUpTo(ChainMessages, MaxMsgs)}
  /\ settings_map = CHAT_MODE_CONFIG_MAP
  /\ nturns = 1
  /\ turn = [th \in Threads |->
               IF th = MainThread
               THEN [IdleTurn EXCEPT !.pc = "retrieve", !.n = 1, !.messages = 1,
                                     !.mode = CHAT_VECTOR_MODE,
                                     !.skey = CHAT_VECTOR_MODE]
               ELSE IdleTurn]
  /\ summ = [n \in TurnIds |-> NoSumm]
  /\ flt = NoFilter
  /\ sessions = {}
  /\ api = NoApi
  /\ environ = NoEnviron
  /\ fmt = NoFormat
  /\ page = NoPage

NextChain == RetrieveDocuments(MainThread)

SpecChain == InitChain /\ [][NextChain]_vars

\* SpecFormat: format_documents is called once on any sequence of up to
\* MaxDocs documents, under the default cutoff or a model's own.
InitFormat ==
  /\ store = EmptyStore
  /\ history_dict = [sid \in Sessions |-> 0]
  /\ hists = <<>>
  /\ lists = <<>>
  /\ settings_map = CHAT_MODE_CONFIG_MAP
  /\ nturns = 0
  /\ turn = [th \in Threads |-> IdleTurn]
  /\ summ = [n \in TurnIds |-> NoSumm]
  /\ flt = NoFilter
  /\ sessions = {}
  /\ api = NoApi
  /\ environ = NoEnviron
  /\ page = NoPage
  /\ \E documents \in SeqsUpTo(Documents, MaxDocs), cutoff \in Cutoffs :
       fmt = [phase |-> "start", documents |-> documents, cutoff |-> cutoff,
              sorted |-> <<>>, formatted |-> <<>>, communities |-> <<>>]

NextFormat == FormatDocuments

SpecFormat == InitFormat /\ [][NextFormat]_vars

\* SpecConfig: the request thread issues MaxTurns calls on the volatile
\* session s1, in mode vector or graph and without a filter, against a
\* mode-settings map whose vector entry may lack index_name or
\* retrieval_query.
SettingsMaps ==
  {[CHAT_MODE_CONFIG_MAP EXCEPT ![CHAT_VECTOR_MODE].index_name = i,
                                ![CHAT_VECTOR_MODE].retrieval_query = q] :
     i \in BOOLEAN, q \in BOOLEAN}

InitConfig ==
  /\ store = EmptyStore
  /\ history_dict = [sid \in Sessions |-> 0]
  /\ hists = <<>>
  /\ lists = <<>>
  /\ settings_map \in SettingsMaps
  /\ nturns = 0
  /\ turn = [th \in Threads |-> IdleTurn]
  /\ summ = [n \in TurnIds |-> NoSumm]
  /\ flt = NoFilter
  /\ sessions = {}
  /\ api = NoApi
  /\ environ = NoEnviron
  /\ fmt = NoFormat
  /\ page = NoPage

NextConfig ==
  \/ nturns < MaxTurns /\ CreateHistory(MainThread, {"s1"}, {FALSE})
  \/ AppendQuestion(MainThread, ConcModes)
  \/ ParseAndGate(MainThread, {NoneInput})
  \/ CallStep(MainThread)
  \/ \E n \in TurnIds : SummarizerStep(n)

SpecConfig == InitConfig /\ [][NextConfig]_vars

\* SpecModes: MaxThreads request threads each run one call on the volatile
\* session s1 at the same time, without a filter, one under the default
\* mode's name and one under a name that is in no configuration entry; the
\* summarizer threads have not been scheduled yet.
SharedEntryModes == {CHAT_DEFAULT_MODE, "my_mode"}

NextModes ==
  \E th \in Threads :
    \/ T(th).pc = "idle" /\ CreateHistory(th, {"s1"}, {FALSE})
    \/ LoadMessages(th)
    \/ AppendQuestion(th, SharedEntryModes)
    \/ GetChatModeSettings(th)
    \/ ParseAndGate(th, {NoneInput})
    \/ SetupChat(th)
    \/ RetrieveDocuments(th)
    \/ ProcessDocuments(th)
    \/ AppendAnswer(th)
    \/ StartSummarizer(th)
    \/ ReturnResult(th)

SpecModes == InitConc /\ [][NextModes]_vars

\* SpecPages: get_chat_histories is called once, with any limit up to
\* MaxLimit and any offset from -1 to MaxOffset, on a store of up to MaxCount
\* sessions.
InitPages ==
  /\ store = EmptyStore
  /\ history_dict = [sid \in Sessions |-> 0]
  /\ hists = <<>>
  /\ lists = <<>>
  /\ settings_map = CHAT_MODE_CONFIG_MAP
  /\ nturns = 0
  /\ turn = [th \in Threads |-> IdleTurn]
  /\ summ = [n \in TurnIds |-> NoSumm]
  /\ flt = NoFilter
  /\ sessions = {}
  /\ api = NoApi
  /\ environ = NoEnviron
  /\ fmt = NoFormat
  /\ \E total_count \in 0..MaxCount, limit \in 0..MaxLimit,
        offset \in -1..MaxOffset :
       page = [phase |-> "start", total_count |-> total_count,
               limit |-> limit, offset |-> offset, status |-> "",
               message |-> "", chat_histories |-> 0,
               pagination |-> Pagination(0, 0, 0)]

NextPages == GetChatHistories

SpecPages == InitPages /\ [][NextPages]_vars

\* SpecFilter: the filter normalization of lines 828-842 applied to every
\* filter value of FilterInputs.
ParseDocumentNames ==
  /\ flt.phase = "in"
  /\ flt' = [flt EXCEPT !.phase = "out", !.output = NormalizeFilter(flt.input)]
  /\ UNCHANGED <<store, history_dict, hists, lists, settings_map, nturns, turn, summ,
               sessions, api>>
  /\ UNCHANGED <<environ, fmt, page>>

InitFilter ==
  /\ store = EmptyStore
  /\ history_dict = [s \in Sessions |-> 0]
  /\ hists = <<>>
  /\ lists = <<>>
  /\ settings_map = CHAT_MODE_CONFIG_MAP
  /\ nturns = 0
  /\ turn = [th \in Threads |-> IdleTurn]
  /\ summ = [n \in TurnIds |-> NoSumm]
  /\ flt \in {[phase |-> "in", input |-> d, output |-> <<>>] : d \in FilterInputs}
  /\ sessions = {}
  /\ api = NoApi
  /\ environ = NoEnviron
  /\ fmt = NoFormat
  /\ page = NoPage

NextFilter == ParseDocumentNames

SpecFilter == InitFilter /\ [][NextFilter]_vars

\* SpecSumm: summarize_and_log(history, stored_messages, llm) called once,
\* on an in-memory history or a durable handle holding any messages, with
\* any sequence of up to MaxStored messages, the empty one included.
TheCall == 1
StoredMessages == SeqsUpTo({OldHuman, OldAI}, MaxStored)

InitSumm ==
  /\ \E kind \in {"mem", "safe"}, held \in StoredMessages,
        stored_messages \in StoredMessages :
       IF kind = "mem"
       THEN /\ store = EmptyStore
            /\ hists = <<MemHistory(1)>>
            /\ lists = <<held, stored_messages>>
            /\ summ = [n \in TurnIds |->
                         IF n = TheCall
                         THEN [NoSumm EXCEPT !.pc = "start", !.hist = 1,
                                             !.messages = 2]
                         ELSE NoSumm]
       ELSE /\ store = [EmptyStore EXCEPT !["s1"] = held]
            /\ hists = <<SafeHistory("s1")>>
            /\ lists = <<stored_messages>>
            /\ summ = [n \in TurnIds |->
                         IF n = TheCall
                         THEN [NoSumm EXCEPT !.pc = "start", !.hist = 1,
                                             !.messages = 1]
                         ELSE NoSumm]
  /\ history_dict = [s \in Sessions |-> 0]
  /\ settings_map = CHAT_MODE_CONFIG_MAP
  /\ nturns = 0
  /\ turn = [th \in Threads |-> IdleTurn]
  /\ flt = NoFilter
  /\ sessions = {}
  /\ api = NoApi
  /\ environ = NoEnviron
  /\ fmt = NoFormat
  /\ page = NoPage

NextSumm == SummarizerStep(TheCall)

SpecSumm == InitSumm /\ [][NextSumm]_vars

\* SpecHandle: one durable handle on session s1, whose store starts with
\* any raw records, receives MaxOps calls of its interface.
TheHandle == 1

InitHandle ==
  /\ \E raw \in SeqsUpTo(RawRecords, MaxRaw) :
       store = [EmptyStore EXCEPT !["s1"] = raw]
  /\ history_dict = [s \in Sessions |-> 0]
  /\ hists = <<SafeHistory("s1")>>
  /\ lists = <<>>
  /\ settings_map = CHAT_MODE_CONFIG_MAP
  /\ nturns = 0
  /\ turn = [th \in Threads |-> IdleTurn]
  /\ summ = [n \in TurnIds |-> NoSumm]
  /\ flt = NoFilter
  /\ sessions = {"s1"}
  /\ api = NoApi
  /\ environ = NoEnviron
  /\ fmt = NoFormat
  /\ page = NoPage

NextHandle ==
  \/ HandleMessages(TheHandle)
  \/ HandleAddMessage(TheHandle)
  \/ HandleClear(TheHandle)
  \/ HandleMissingMethod(TheHandle)
  \/ ValidateAndClean(TheHandle)

SpecHandle == InitHandle /\ [][NextHandle]_vars

\* SpecApi: MaxOps calls of the history API on a store whose sessions hold
\* up to MaxStored messages, some with a null type, beside the in-process
\* history of session s1 as one answered turn left it.
StoredRecords == {OldHuman, NullTypeMessage}
AnsweredTurn == <<HumanMessage(Question(1)), AIMessage(Answer(1))>>

InitApi ==
  /\ store \in [Sessions -> SeqsUpTo(StoredRecords, MaxStored)]
  /\ sessions \in SUBSET Sessions
  /\ \A sid \in Sessions : store[sid] # <<>> => sid \in sessions
  /\ history_dict = [sid \in Sessions |-> IF sid = "s1" THEN 1 ELSE 0]
  /\ hists = <<MemHistory(1)>>
  /\ lists = <<AnsweredTurn>>
  /\ settings_map = CHAT_MODE_CONFIG_MAP
  /\ nturns = 0
  /\ turn = [th \in Threads |-> IdleTurn]
  /\ summ = [n \in TurnIds |-> NoSumm]
  /\ flt = NoFilter
  /\ api = NoApi
  /\ environ = NoEnviron
  /\ fmt = NoFormat
  /\ page = NoPage

NextApi ==
  \/ ClearChatHistory
  \/ GetChatHistoryBySessionId
  \/ DeleteChatHistory

SpecApi == InitApi /\ [][NextApi]_vars

\* SpecEnv: an EnvironmentConfig is built over any system environment and
\* any .env file, present or not, and asked for keys.
EnvMaps == [EnvKeys -> {NoValue, FROM_SYSTEM}]
EnvFiles ==
  {NoFile} \cup {EnvFile(v) : v \in [EnvKeys -> {NoValue, FROM_ENV_FILE}]}

InitEnv ==
  /\ store = EmptyStore
  /\ history_dict = [s \in Sessions |-> 0]
  /\ hists = <<>>
  /\ lists = <<>>
  /\ settings_map = CHAT_MODE_CONFIG_MAP
  /\ nturns = 0
  /\ turn = [th \in Threads |-> IdleTurn]
  /\ summ = [n \in TurnIds |-> NoSumm]
  /\ flt = NoFilter
  /\ sessions = {}
  /\ api = NoApi
  /\ fmt = NoFormat
  /\ page = NoPage
  /\ \E os \in EnvMaps, file \in EnvFiles :
       environ = [phase |-> "start", os |-> os, sys0 |-> os, file |-> file,
                  loaded |-> FALSE, call |-> NoCall]

NextEnv ==
  \/ EnvConstruct
  \/ EnvGet

SpecEnv == InitEnv /\ [][NextEnv]_vars

-----------------------------------------------------------------------------
(* Properties *)

\* the messages of q that come after the question of turn n
AfterQuestion(q, n) ==
  {q[j] : j \in {j \in 1..Len(q) :
                   \E i \in 1..(j - 1) : q[i] = HumanMessage(Question(n))}}
\* an AI message that is the answer of some turn (not a summary)
IsAnswer(m) ==
  \/ m = AIMessage(NO_DOCS_ANSWER)
  \/ \E k \in TurnIds : m = AIMessage(Answer(k))
SummarizedHistory(n) == <<HumanMessage(SUMMARY_MARKER), AIMessage(Summary(n))>>

\* C1: when summarize_and_log, run on a non-empty sequence with a model call
\* that succeeded, returns, it returns true and the history's message
\* sequence is the marker followed by the summary, for the in-memory history
\* and for the durable handle alike.
C1_SummarizeReplacesHistory ==
  [][\A n \in TurnIds :
       (S(n).pc \in {"clear", "marker", "summary"} /\ summ'[n].pc = "done")
         => /\ summ'[n].ret = "true"
            /\ HistSeq(hists[S(n).hist])' = SummarizedHistory(n)]_vars

\* C2: whenever summarize_and_log has returned false, the history's message
\* sequence is what it was before the call.
C2_FailedSummaryLeavesHistory ==
  \A n \in TurnIds :
    (S(n).pc = "done" /\ S(n).ret = "false")
      => HistSeq(hists[S(n).hist]) = S(n).pre

\* a summarizer between its clear and its add-summary, inside `with`
InSection(n) == S(n).pc \in {"marker", "summary"}

\* C3: while a summarizer is between its clear and its add-summary, no step
\* of another thread changes the sequence of the same history object and no
\* turn reads that history.
C3_ReplacementIsAtomic ==
  [][\A n \in TurnIds :
       (InSection(n) /\ summ'[n] = summ[n])
         => LET h == S(n).hist IN
            /\ hists'[h] = hists[h]
            /\ lists'[hists[h].list] = lists[hists[h].list]
            /\ \A th \in Threads :
                 ~(T(th).hist = h /\ T(th).pc = "created"
                     /\ turn'[th].pc = "loaded")]_vars

\* C4: in a non-graph mode, a non-empty normalized filter under settings
\* that do not permit document filtering ends the call with the advisory
\* message and with no model construction, retriever construction,
\* retrieval or synthesis call.
C4_GateShortCircuits ==
  \A th \in Threads :
    (/\ T(th).mode # CHAT_GRAPH_MODE
     /\ T(th).skey # ""
     /\ T(th).parsed # <<>>
     /\ ~settings_map[T(th).skey].document_filter)
      => /\ T(th).pc \in {"finish", "returned"}
         /\ T(th).env.message = ADVISORY
         /\ T(th).calls = ZeroCalls

C4_Witness ==
  \E th \in Threads :
    /\ T(th).pc = "returned"
    /\ T(th).mode = CHAT_ENTITY_VECTOR_MODE
    /\ T(th).parsed = <<Str_a>>
    /\ T(th).env.message = ADVISORY

\* a text that is certainly no JSON document: it holds a lexeme JSON does
\* not have, starts with a closing or separating lexeme, or ends with an
\* opening or separating one
Malformed(t) ==
  /\ t # <<>>
  /\ \/ \E i \in 1..Len(t) : t[i].k = "bad"
     \/ t[1].k \in {"rb", "rc", "comma", "colon"}
     \/ t[Len(t)].k \in {"lb", "lc", "comma", "colon"}

\* a name without its blanks (no name of NameStrings has an inner blank)
TrimmedName(s) == SelectSeq(s, LAMBDA c : c # " ")

\* C5: the normalized filter is the empty list for None, "", "null", "[]"
\* and malformed JSON, and for a well-formed array of strings it is the
\* list of the strings, each trimmed, in the same order.
C5_FilterNormalized ==
  flt.phase = "out" =>
    LET d == flt.input
        out == flt.output
    IN /\ d \in {NoneInput, StrInput(<<>>), StrInput(<<NULLTOK>>),
                 StrInput(<<LB, RB>>)} => out = <<>>
       /\ (d.kind = "str" /\ Malformed(d.text)) => out = <<>>
       /\ \A ns \in SeqsUpTo(NameStrings, MaxNames) :
            (d.kind = "str" /\ d.text \in {RenderArray(ns),
                                           <<WS>> \o RenderArray(ns) \o <<WS>>})
              => /\ Len(out) = Len(ns)
                 /\ \A i \in 1..Len(ns) : out[i] = TrimmedName(ns[i])

C5_Witness ==
  /\ flt.phase = "out"
  /\ flt.input = StrInput(RenderArray(<<Str_sp_a_sp, Str_b_sp>>))
  /\ flt.output = <<<<"a">>, <<"b">>>>

\* C6: when invoking the retriever chain raised, the call goes on to answer
\* with the canned text: synthesis is not called, the canned answer is the
\* AI message appended after the turn's question, the envelope carries it
\* with total_tokens 0 and no error, and nothing is raised.
C6_RetrievalFailureDegrades ==
  \A th \in Threads :
    T(th).docs = "none"
      => /\ T(th).pc \in {"answer", "spawn", "finish", "returned"}
         /\ T(th).calls.synth = 0
         /\ T(th).pc \in {"spawn", "finish", "returned"}
              => AIMessage(NO_DOCS_ANSWER)
                   \in AfterQuestion(lists[T(th).messages], T(th).n)
         /\ T(th).pc \in {"finish", "returned"}
              => /\ T(th).env.message = NO_DOCS_ANSWER
                 /\ T(th).env.total_tokens = 0
                 /\ T(th).env.error = ""

C6_Witness ==
  \E th \in Threads :
    /\ T(th).pc = "returned"
    /\ T(th).docs = "none"
    /\ T(th).env.message = NO_DOCS_ANSWER

\* C7: QA_RAG raises nothing, whichever step fails, and a failure that is
\* not degraded is returned as 'Something went wrong' with the error.
C7_NothingEscapes ==
  \A th \in Threads :
    /\ T(th).pc # "raised"
    /\ (T(th).pc = "returned" /\ T(th).exc # "")
         => T(th).env.message = SOMETHING_WRONG /\ T(th).env.error # ""

\* C8: in graph mode, a failure to build or to invoke the graph chain ends
\* in a returned result with message 'Something went wrong', mode graph and
\* an error.
C8_GraphFailureEnvelope ==
  \A th \in Threads :
    T(th).exc \in {"graph_chain", "graph_invoke"}
      => /\ T(th).pc \in {"finish", "returned"}
         /\ T(th).env.message = SOMETHING_WRONG
         /\ T(th).env.mode = CHAT_GRAPH_MODE
         /\ T(th).env.error # ""

\* C9: when the synthesis model call raised, the envelope is 'Something
\* went wrong' with the error set, no answer follows the turn's question in
\* the message sequence and no summarizer was started for the turn.
C9_SynthesisFailureIsFatal ==
  \A th \in Threads :
    T(th).exc = "synthesis"
      => /\ T(th).pc \in {"finish", "returned"}
         /\ T(th).env.message = SOMETHING_WRONG
         /\ T(th).env.error # ""
         /\ \A m \in AfterQuestion(lists[T(th).messages], T(th).n) :
              ~IsAnswer(m)
         /\ S(T(th).n).pc = "none"

C9_Witness ==
  \E th \in Threads :
    /\ T(th).pc = "returned"
    /\ T(th).exc = "synthesis"
    /\ T(th).calls.synth = 1

WellTyped(msgs) ==
  \A i \in 1..Len(msgs) : msgs[i].obj = "msg" /\ msgs[i].type # Null

\* C10: no message list handed to a model call (question rewrite, synthesis,
\* summarization) holds a message whose type is null, on the durable and on
\* the volatile path.
C10_NoNullTypeToModel ==
  /\ \A th \in Threads : WellTyped(T(th).rewriteIn) /\ WellTyped(T(th).synthIn)
  /\ \A n \in TurnIds : WellTyped(S(n).sumIn)

C10_Witness ==
  \E th \in Threads :
    /\ T(th).hist # 0
    /\ hists[T(th).hist].kind = "safe"
    /\ T(th).calls.rewrite = 1
    /\ T(th).calls.synth = 1
    /\ T(th).synthIn = <<OldHuman>>
    /\ S(T(th).n).sumIn # <<>>

\* a raw record that is a message: not None, and with a type that is not null
WellFormed(r) == r # NoneRecord /\ r.type # Null

\* the position in raw of its k-th well-formed record
KthWellFormed(raw, k) ==
  CHOOSE i \in 1..Len(raw) :
    /\ WellFormed(raw[i])
    /\ Cardinality({j \in 1..i : WellFormed(raw[j])}) = k

\* C11: the validated view of raw records that were read, made by the
\* durable handle or by validate_and_clean_messages, is as long as the
\* number of well-formed records, lists them in the order they have in the
\* raw sequence, and holds no malformed record.
C11_ValidatedViewIsFilter ==
  (/\ api.op \in {"messages", "validate_and_clean_messages"}
   /\ api.arg = "read")
    => LET raw == api.raw
           view == api.result
       IN /\ Len(view) = Cardinality({i \in 1..Len(raw) : WellFormed(raw[i])})
          /\ \A k \in 1..Len(view) : view[k] = raw[KthWellFormed(raw, k)]
          /\ \A k \in 1..Len(view) : WellFormed(view[k])

C11_Witness ==
  /\ api.op = "messages"
  /\ api.arg = "read"
  /\ api.raw = <<OldAI, NullTypeMessage, OldHuman>>
  /\ api.result = <<OldAI, OldHuman>>

\* the steps of a call between its question and its answer
BeforeAnswer ==
  {"settings", "parse", "setup", "retrieve", "synth", "answer", "g_create",
   "g_invoke"}

\* C12: when reading the raw records of a durable session raised, the view
\* the call got is empty and the call goes on: no exception of the read
\* leaves it, its message sequence is the question alone until the answer
\* is appended, and retrieval takes the question verbatim as for a new
\* session.
C12_RaisingReadIsEmptyHistory ==
  \A th \in Threads :
    T(th).load = "raise"
      => /\ T(th).exc # "load"
         /\ T(th).prior = <<>>
         /\ T(th).pc = "loaded" => lists[T(th).messages] = <<>>
         /\ T(th).pc \in BeforeAnswer
              => lists[T(th).messages] = <<HumanMessage(Question(T(th).n))>>
         /\ T(th).calls.rewrite = 0

C12_Witness ==
  \E th \in Threads :
    /\ T(th).load = "raise"
    /\ store[T(th).sid] = CorruptRecords
    /\ T(th).pc = "returned"
    /\ T(th).calls.retrieve = 1
    /\ lists[T(th).messages] = <<HumanMessage(Question(T(th).n)),
                                  AIMessage(Answer(T(th).n))>>

\* C13 as claimed: clear_chat_history raises nothing and its result
\* carries the 'cleared' message, whether the handle could not be built or
\* the store could not be cleared.
C13_ClearAlwaysReportsCleared ==
  api.op = "clear_chat_history"
    => /\ api.status = "ok"
       /\ api.message = CLEARED

\* C13: clear_chat_history raises nothing; its result carries the 'cleared'
\* message when the store's clear raised inside the handle, and the 'failed
\* to clear' message when the handle could not be built.
C13_ClearNeverRaises ==
  api.op = "clear_chat_history"
    => /\ api.status = "ok"
       /\ api.how = "store_raises" => api.message = CLEARED
       /\ api.how = "constructor_raises" => api.message = CLEAR_FAILED
       /\ api.how \in {"cleared", "volatile"} => api.message = CLEARED

C13_Witness ==
  /\ api.op = "clear_chat_history"
  /\ api.how = "store_raises"
  /\ api.message = CLEARED
  /\ store[api.sid] # <<>>

\* C14: with the store reachable, delete_chat_history of a session that
\* exists, whatever the number of its messages, succeeds and removes the
\* session; get_chat_history_by_session_id called next on that session
\* fails with 'not found', as it does on every session without a record.
C14_DeleteThenGetNotFound ==
  [][api'.nops > api.nops =>
       /\ (/\ api'.op = "delete_chat_history"
           /\ api'.arg = "existed"
           /\ api'.how # "store_raises")
            => api'.status = "ok" /\ api'.sid \notin sessions'
       /\ (/\ api.op = "delete_chat_history"
           /\ api.status = "ok"
           /\ api'.op = "get_chat_history_by_session_id"
           /\ api'.sid = api.sid
           /\ api'.how = "answered")
            => api'.status = "raised" /\ api'.message = NOT_FOUND
       /\ (/\ api'.op = "get_chat_history_by_session_id"
           /\ api'.sid \notin sessions
           /\ api'.how = "answered")
            => api'.status = "raised" /\ api'.message = NOT_FOUND]_vars

\* C15: a call of summarize_and_log with an empty message sequence returns
\* false, has made no model call, and leaves the history's sequence, the
\* history object and the store as they were.
C15_EmptySummarizeIsNoop ==
  (S(TheCall).pc \notin {"none", "start"} /\ S(TheCall).sumIn = <<>>)
    => /\ S(TheCall).pc = "done"
       /\ S(TheCall).ret = "false"
       /\ S(TheCall).calls = 0
       /\ HistSeq(hists[S(TheCall).hist]) = S(TheCall).pre
       /\ Len(hists) = 1
       /\ ~hists[1].validated

C15_Witness ==
  /\ S(TheCall).pc = "done"
  /\ lists[S(TheCall).messages] = <<>>
  /\ S(TheCall).ret = "false"
  /\ S(TheCall).calls = 0
  /\ S(TheCall).pre = <<OldHuman, OldAI>>

\* a call on session s1 in mode vector with an empty filter whose history
\* held exactly one human message when it was loaded, and that returned an
\* answer synthesized from retrieved documents
OnePriorScenario(th) ==
  /\ T(th).pc = "returned"
  /\ T(th).sid = "s1"
  /\ T(th).mode = CHAT_VECTOR_MODE
  /\ T(th).parsed = <<>>
  /\ Len(T(th).prior) = 1
  /\ T(th).prior[1].type = "human"
  /\ T(th).docs = "list"
  /\ T(th).exc = ""

\* C16 as claimed: in that scenario retrieval took the single-turn branch
\* (no question rewrite), synthesis was called once, and the envelope has
\* session_id s1 and mode vector.
C16_OnePriorIsSingleTurn ==
  \A th \in Threads :
    OnePriorScenario(th)
      => /\ T(th).calls.rewrite = 0
         /\ T(th).calls.synth = 1
         /\ T(th).env.session_id = "s1"
         /\ T(th).env.mode = CHAT_VECTOR_MODE

\* C16: in that scenario the sequence given to retrieval holds the prior
\* message and the question, so retrieval took the rewrite branch (one
\* question rewrite); synthesis was called once, and the envelope has
\* session_id s1 and mode vector.
C16_OnePriorIsRewritten ==
  \A th \in Threads :
    OnePriorScenario(th)
      => /\ T(th).calls.rewrite = 1
         /\ Len(T(th).rewriteIn) >= 2
         /\ T(th).rewriteIn[1] = T(th).prior[1]
         /\ T(th).calls.synth = 1
         /\ T(th).env.session_id = "s1"
         /\ T(th).env.mode = CHAT_VECTOR_MODE

C16_Witness ==
  \E th \in Threads :
    /\ OnePriorScenario(th)
    /\ T(th).prior = <<OldHuman>>
    /\ T(th).rewriteIn = <<OldHuman, HumanMessage(Question(T(th).n))>>
    /\ T(th).env.message = Answer(T(th).n)

\* C17: a call whose answer was appended can always take its next step up
\* to the return, whatever its summarizer is doing (not yet run, waiting for
\* the model, failed), and no step changes the envelope of a call that has
\* returned.
C17_ReturnDoesNotWaitForSummarizer ==
  /\ [](\A th \in Threads :
          /\ T(th).pc = "spawn" => ENABLED StartSummarizer(th)
          /\ T(th).pc = "finish" => ENABLED ReturnResult(th))
  /\ [][\A th \in Threads :
          (T(th).pc = "returned" /\ turn'[th].n = T(th).n)
            => turn'[th].env = T(th).env]_vars

C17_Witness ==
  \E th \in Threads :
    /\ T(th).pc = "returned"
    /\ T(th).env.message = Answer(T(th).n)
    /\ S(T(th).n).pc = "start"

\* the operations of the chat-history interface that change the history
InterfaceWrites ==
  {"add_message", "add_user_message", "add_ai_message", "add_system_message",
   "clear"}

\* C18: on a durable handle whose raw records are all invalid and whose
\* store raises on every write and clear, add_message, add_user_message,
\* add_ai_message, add_system_message and clear return without raising, and
\* messages returns a list that holds none of the invalid records.
C18_InterfaceNeverRaises ==
  (/\ \A i \in 1..Len(api.raw) : ~WellFormed(api.raw[i])
   /\ api.arg \notin {"written", "cleared"})
    => /\ api.op \in InterfaceWrites => api.status = "ok"
       /\ api.op = "messages"
            => /\ api.status = "ok"
               /\ \A k \in 1..Len(api.result) : WellFormed(api.result[k])

\* C19: when a call on a durable session has returned an answer and the
\* summarizer it started has not yet cleared anything, the records of the
\* store, as a new handle validates them, are the messages the call loaded
\* followed by its question and its answer.
C19_DurableTurnIsStored ==
  \A th \in Threads :
    (/\ T(th).pc = "returned"
     /\ T(th).load = "read"
     /\ S(T(th).n).pc \in {"start", "clear"})
      => ValidMessages(store[T(th).sid])
           = T(th).prior \o <<HumanMessage(Question(T(th).n)),
                                AIMessage(T(th).content)>>

\* a call of clear_chat_history that passes no third argument
DefaultClear ==
  /\ api'.nops > api.nops
  /\ api'.op = "clear_chat_history"
  /\ api'.arg = "omitted"

\* C20 as claimed: clear_chat_history called without the third argument
\* works on the in-process history and leaves the records of the store
\* as they were.
C20_DefaultClearsVolatile ==
  [][DefaultClear => (api'.how = "volatile" /\ store' = store)]_vars

\* C20: clear_chat_history called without the third argument (local
\* defaults to False) works on the durable handle: the in-process
\* histories are left as they were, and the records of the session in the
\* store are deleted unless the handle could not be built or the store's
\* clear raised.
C20_DefaultClearsDurable ==
  [][DefaultClear =>
       /\ history_dict' = history_dict
       /\ hists' = hists
       /\ lists' = lists
       /\ api'.how \in {"constructor_raises", "store_raises", "cleared"}
       /\ api'.how = "cleared" => store' = [store EXCEPT ![api'.sid] = <<>>]
       /\ api'.how # "cleared" => store' = store]_vars

C20_Witness ==
  /\ api.op = "clear_chat_history"
  /\ api.arg = "omitted"
  /\ api.sid = "s1"
  /\ api.how = "cleared"
  /\ api.raw # <<>>
  /\ store["s1"] = <<>>
  /\ lists[hists[history_dict["s1"]].list] = AnsweredTurn

\* what the .env file defines for key k, when it exists
FileValue(k) == environ.file.defs[k]

\* C21: get(key, default) returns the value of the system environment when
\* the key is set there, otherwise the value the loaded .env file defines,
\* otherwise the default, or raises ValueError when required is true;
\* loading the file changes no variable the system environment sets.
C21_EnvPrecedence ==
  /\ environ.phase # "off"
       => \A k \in EnvKeys :
            environ.sys0[k] # NoValue => environ.os[k] = environ.sys0[k]
  /\ environ.phase = "got"
       => LET c == environ.call
              sys == environ.sys0[c.key]
              file == FileValue(c.key)
          IN /\ sys # NoValue => (c.status = "ok" /\ c.result = sys)
             /\ (sys = NoValue /\ file # NoValue /\ environ.loaded)
                  => (c.status = "ok" /\ c.result = file)
             /\ (sys = NoValue /\ file = NoValue)
                  => IF c.required THEN c.status = "ValueError"
                     ELSE c.status = "ok" /\ c.result = c.default

C21_Witness ==
  /\ environ.phase = "got"
  /\ environ.call.key = "TEST_VAR"
  /\ environ.sys0["TEST_VAR"] = NoValue
  /\ environ.call.result = FROM_ENV_FILE
  /\ environ.sys0["OTHER_VAR"] = FROM_SYSTEM
  /\ environ.file.defs["OTHER_VAR"] = FROM_ENV_FILE
  /\ environ.os["OTHER_VAR"] = FROM_SYSTEM

\* a filter text that is a JSON document but no array of strings
JsonButNoStringArray(text) ==
  LET v == JsonLoads(text)
  IN /\ v.ok
     /\ ~(/\ v.kind = "arr"
           /\ \A n \in 1..Len(v.items) : v.items[n].kind = "str")

\* C22: a filter value that parses as JSON but is no array of strings (an
\* object, a bare string, a number, an array with a non-string element) is
\* normalized to the empty list.
C22_NonArrayJsonIsEmpty ==
  (/\ flt.phase = "out"
   /\ flt.input.kind = "str"
   /\ ~IsBlank(flt.input.text)
   /\ JsonButNoStringArray(flt.input.text))
    => flt.output = <<>>

\* C23: on a durable handle, a read that follows a read, a failed
\* add_message or a failed clear validates nothing and returns the view
\* cached before; the read after a successful add_message validates the
\* records of the store again and returns them as they are now; after a
\* successful clear the view is empty; a failed add_message or clear
\* leaves the cached view as it was.
C23_CacheUntilMutation ==
  [][api'.nops > api.nops =>
       LET h == hists[TheHandle] IN
       /\ (api'.op = "messages" /\ h.validated)
            => /\ api'.arg = "cached"
               /\ api'.result = lists[h.list]
               /\ hists' = hists /\ lists' = lists
       /\ (api'.op = "messages" /\ api.op = "add_message"
             /\ api.arg = "written")
            => /\ api'.arg # "cached"
               /\ api'.arg = "read" => api'.result = ValidMessages(store[h.sid])
       /\ (api'.op = "clear" /\ api'.arg = "cleared")
            => /\ hists'[TheHandle].validated
               /\ lists'[hists'[TheHandle].list] = <<>>
       /\ (api'.op \in {"add_message", "clear"} /\ api'.arg = "store_raises")
            => hists' = hists /\ lists' = lists /\ store' = store]_vars

C23_Witness ==
  /\ api.nops = 3
  /\ api.op = "messages"
  /\ api.arg = "read"
  /\ Len(lists) = 2
  /\ lists[1] = <<OldHuman>>
  /\ lists[2] = <<OldHuman, NewMessage>>
  /\ api.result = lists[2]

\* C24: a summarizer thread is started only by a call whose answer is in
\* its message sequence after its question; a call that returned an answer
\* started exactly one, and a call that returned the advisory message or a
\* failure envelope started none.
C24_SummarizerAfterAnswer ==
  /\ [][\A n \in TurnIds :
          (summ[n].pc = "none" /\ summ'[n].pc # "none")
            => \E th \in Threads :
                 /\ T(th).n = n
                 /\ AIMessage(T(th).content)
                      \in AfterQuestion(lists[T(th).messages], n)]_vars
  /\ [](\A th \in Threads :
          T(th).pc = "returned"
            => IF T(th).env.message \in {ADVISORY, SOMETHING_WRONG}
               THEN T(th).calls.summ = 0 /\ S(T(th).n).pc = "none"
               ELSE T(th).calls.summ = 1 /\ S(T(th).n).pc # "none")

C24_Witness ==
  \E th \in Threads :
    /\ T(th).pc = "returned"
    /\ T(th).calls.summ = 1
    /\ T(th).env.message = Answer(T(th).n)
    /\ S(T(th).n).pc = "done"

\* a summarizer that has not got its summary from the model yet
Pending(n) == S(n).pc = "start"

\* the elements of a sequence
Range(q) == {q[i] : i \in 1..Len(q)}

\* the messages a summarization writes
SummaryText == {SUMMARY_MARKER} \cup {Summary(n) : n \in TurnIds}

\* some step of the call of thread th can be taken
TurnCanStep(th) ==
  ENABLED (\/ AppendQuestion(th, ConcModes)
           \/ ParseAndGate(th, {NoneInput})
           \/ CallStep(th))

\* C25: the lock of summarize_and_log is held only after the model call has
\* returned, and while the summarizer of an earlier call on a session is
\* still waiting for its summary a later call on the session can take every
\* one of its steps up to the return; when no earlier summarization has
\* come back, the history that call read is the session's whole
\* conversation, with no marker and no summary in it.
C25_PendingSummarizerDoesNotBlock ==
  /\ \A n \in TurnIds :
       S(n).lock # 0 => S(n).pc \in {"marker", "summary"} /\ S(n).calls = 1
  /\ \A th \in Threads : \A n \in TurnIds :
       (Pending(n) /\ n < T(th).n /\ S(n).hist = T(th).hist)
         => /\ T(th).pc \notin {"idle", "returned", "raised"} => TurnCanStep(th)
            /\ T(th).pc \notin {"idle", "created"}
                 => AIMessage(Summary(n)) \notin Range(T(th).prior)
  /\ \A th \in Threads :
       (/\ T(th).pc \notin {"idle", "created"}
        /\ T(th).n > PendingTurn
        /\ \A m \in 1..(T(th).n - 1) : S(m).pc \in {"none", "start"})
         => /\ \A i \in 1..Len(T(th).prior) :
                 T(th).prior[i].content \notin SummaryText
            /\ Len(T(th).prior) >= 2
            /\ SubSeq(T(th).prior, 1, 2) = PendingConversation

C25_Witness ==
  /\ Pending(PendingTurn)
  /\ T(MainThread).pc = "returned"
  /\ T(MainThread).n = PendingTurn + 1
  /\ T(MainThread).load = "held"
  /\ T(MainThread).prior = PendingConversation
  /\ T(MainThread).env.message = Answer(PendingTurn + 1)

\* a is b or b with its last messages left out
IsPrefix(a, b) == Len(a) <= Len(b) /\ SubSeq(b, 1, Len(a)) = a

\* the history object h holds its message list: the in-memory history
\* always, the durable handle once it has validated the stored records
HoldsList(h) == h.kind = "mem" \/ (h.validated /\ h.list # 0)

\* the step empties the history object number h: the clear of a summarizer
\* working on it, or clear called on it
ClearsHistory(h) ==
  \/ \E n \in TurnIds :
       S(n).hist = h /\ S(n).pc = "clear" /\ summ'[n].pc = "marker"
  \/ api'.nops > api.nops /\ api'.op \in {"clear", "clear_chat_history"}

\* the step replaces the stored records of session sid: the clear of a
\* summarizer working on a handle of sid, clear called on such a handle,
\* clear_chat_history or delete_chat_history
ReplacesStored(sid) ==
  \/ \E n \in TurnIds :
       /\ S(n).pc = "clear" /\ summ'[n].pc = "marker"
       /\ hists[S(n).hist].kind = "safe" /\ hists[S(n).hist].sid = sid
  \/ /\ api'.nops > api.nops
     /\ api'.op \in {"clear", "clear_chat_history", "delete_chat_history"}

\* C26: a step that is no clear of a history leaves the message sequence the
\* history holds a prefix of what it holds afterwards, and a step that is
\* no clear or delete of a session's stored records leaves them a prefix of
\* the records stored afterwards.
C26_SequenceGrowsByAppending ==
  [][/\ \A h \in 1..Len(hists) :
          (HoldsList(hists[h]) /\ ~ClearsHistory(h))
            => IsPrefix(HistSeq(hists[h]), HistSeq(hists[h])')
     /\ \A sid \in Sessions :
          ~ReplacesStored(sid) => IsPrefix(store[sid], store'[sid])]_vars

\* a history grew to a question and its answer, was cleared by the
\* summarizer and grew again to the marker and the summary
C26_Witness ==
  \E n \in TurnIds :
    /\ S(n).pc = "done"
    /\ S(n).ret = "true"
    /\ S(n).pre = <<HumanMessage(Question(n)), AIMessage(Answer(n))>>
    /\ HistSeq(hists[S(n).hist]) = SummarizedHistory(n)

\* C27: whatever get_chat_mode_settings calls were made, with known or
\* unknown mode names, every entry of the mode-settings map is what it was at
\* process start.
C27_SettingsNeverMutated ==
  settings_map = CHAT_MODE_CONFIG_MAP

\* C28: the messages a call hands to the synthesis model call hold every
\* message the call found in the history and not the call's own question,
\* also when another call on the same volatile session appends to the same
\* list.
C28_SynthesisExcludesQuestion ==
  \A th \in Threads :
    T(th).calls.synth > 0
      => /\ HumanMessage(Question(T(th).n)) \notin Range(T(th).synthIn)
         /\ IsPrefix(T(th).prior, T(th).synthIn)

\* C29: a retrieval over a sequence of exactly one message calls no model
\* and queries with the text of that message; a retrieval over a sequence of
\* any other length, the empty one included, calls the model once, on that
\* sequence, and queries with the standalone question it wrote.
C29_SingleTurnIffOneMessage ==
  [][\A th \in Threads :
       (T(th).pc = "retrieve" /\ turn'[th].pc # "retrieve")
         => LET msgs == lists[T(th).messages]
                after == turn'[th]
            IN IF Len(msgs) = 1
               THEN /\ after.calls.rewrite = T(th).calls.rewrite
                    /\ after.query = msgs[1].content
               ELSE /\ after.calls.rewrite = T(th).calls.rewrite + 1
                    /\ after.rewriteIn = msgs
                    /\ after.query = STANDALONE_QUESTION]_vars

\* the retrieval was run on the empty sequence and called the model
C29_Witness ==
  /\ T(MainThread).calls.retrieve = 1
  /\ lists[T(MainThread).messages] = <<>>
  /\ T(MainThread).calls.rewrite = 1
  /\ T(MainThread).query = STANDALONE_QUESTION

\* the communitydetails of the documents that were formatted, one after
\* another
RECURSIVE AllEntries(_)
AllEntries(docs) ==
  IF docs = <<>> THEN <<>>
  ELSE Head(docs).communitydetails \o AllEntries(Tail(docs))

\* the entries of q that no earlier entry of q shares its id with
FirstOfEachId(q) ==
  LET first(i) == \A j \in 1..(i - 1) : q[j].id # q[i].id
      idx == {i \in 1..Len(q) : first(i)}
      RECURSIVE pick(_)
      pick(i) == IF i > Len(q) THEN <<>>
                 ELSE IF i \in idx THEN <<q[i]>> \o pick(i + 1)
                 ELSE pick(i + 1)
  IN pick(1)

\* C30: the community list format_documents returns holds no community id
\* twice, whatever the documents, one document that lists an id twice
\* included, and it holds the first entry of each id in document order.
C30_CommunityIdsAreUnique ==
  fmt.phase = "done"
    => /\ \A i, j \in 1..Len(fmt.communities) :
            i # j => fmt.communities[i].id # fmt.communities[j].id
       /\ fmt.communities = FirstOfEachId(AllEntries(fmt.formatted))

\* C31: a call whose resolved settings lack index_name or retrieval_query
\* never opens an index, retrieves, synthesizes, appends an answer or starts
\* a summarizer, and once it has tried to build the retriever it ends with
\* the failure envelope that carries the configuration error.
C31_MissingSettingsFailFast ==
  \A th \in Threads :
    (T(th).skey # "" /\ T(th).pc \notin {"parse", "setup"}
       /\ ~Configured(settings_map[T(th).skey]))
      => /\ T(th).calls.index = 0
         /\ T(th).calls.retrieve = 0
         /\ T(th).calls.synth = 0
         /\ T(th).calls.summ = 0
         /\ S(T(th).n).pc = "none"
         /\ T(th).content = ""
         /\ \A m \in AfterQuestion(lists[T(th).messages], T(th).n) :
              ~IsAnswer(m)
         /\ T(th).pc \in {"finish", "returned"}
         /\ T(th).env.message = SOMETHING_WRONG
         /\ T(th).calls.retriever = 1 => T(th).env.error = CONFIG_ERROR

C31_Witness ==
  /\ T(MainThread).pc = "returned"
  /\ T(MainThread).skey = CHAT_VECTOR_MODE
  /\ ~Configured(settings_map[T(MainThread).skey])
  /\ T(MainThread).calls.retriever = 1
  /\ T(MainThread).env.error = CONFIG_ERROR

\* C32: every envelope a call returns, whether it carries the model's answer,
\* the no-documents answer, the advisory message, a graph answer or a
\* failure, has the session id the caller supplied.
C32_EnvelopeCarriesSessionId ==
  \A th \in Threads :
    T(th).pc = "returned" => T(th).env.session_id = T(th).sid

\* a failure envelope, built with an empty session id, came back with the
\* caller's
C32_Witness ==
  \E th \in Threads :
    /\ T(th).pc = "returned"
    /\ T(th).env.message = SOMETHING_WRONG
    /\ T(th).sid \in Sessions
    /\ T(th).env.session_id = T(th).sid

\* C33: a get_chat_history_by_session_id call on an existing session of a
\* store that answers returns, whatever records are stored: its messages are
\* the well-formed stored messages, none has a null type, and message_count,
\* the length of the list, counts only these.
C33_GetSessionExcludesMalformed ==
  (api.op = "get_chat_history_by_session_id" /\ api.how = "answered"
     /\ api.sid \in sessions)
    => /\ api.status = "ok"
       /\ \A i \in 1..Len(api.result) : api.result[i].type # Null
       /\ api.result = MessageDicts(ValidMessages(api.raw))

\* C34: the envelope a call returns names the mode the call was made with,
\* and the synthesis of the call shaped its metadata for that mode, also
\* when another call, under another mode name resolved to the same settings
\* entry, runs at the same time.
C34_EnvelopeModeIsOwnMode ==
  \A th \in Threads :
    T(th).pc = "returned"
      => /\ T(th).env.mode = T(th).mode
         /\ T(th).shape # "" => T(th).shape = MetadataShape(T(th).mode)

\* call n was answered and has returned
AnsweredAndReturned(n) ==
  /\ S(n).pc # "none"
  /\ \A th \in Threads : T(th).n = n => T(th).pc = "returned"

\* the sequence q holds the question of call n and, after it, an answer
HoldsTurn(q, n) == \E m \in AfterQuestion(q, n) : IsAnswer(m)

\* the sequence q holds the question and the answer of call n, or a summary
\* that was computed over a sequence holding them
Represents(q, n) ==
  \/ HoldsTurn(q, n)
  \/ \E m \in TurnIds :
       AIMessage(Summary(m)) \in Range(q) /\ HoldsTurn(S(m).sumIn, n)

\* a summarizer has cleared the history object h and not yet stored its
\* summary
Replacing(h) ==
  \E m \in TurnIds : S(m).hist = h /\ S(m).pc \in {"marker", "summary"}

\* C35: once a call on a volatile session was answered and has returned, the
\* session's history holds its question and answer, or a summary computed
\* over them, in every later state in which no summarizer is in the middle
\* of replacing the history, however the later calls and the summarizers
\* interleave and whichever summarizations fail.
C35_AnsweredTurnStaysRepresented ==
  \A sid \in Sessions : \A n \in TurnIds :
    (history_dict[sid] # 0 /\ AnsweredAndReturned(n)
       /\ S(n).hist = history_dict[sid]
       /\ ~Replacing(history_dict[sid]))
      => Represents(HistSeq(hists[history_dict[sid]]), n)

\* C36: when a call returns the advisory message or a failure envelope, the
\* history of its session holds what the call found in it: the question the
\* call appended is not left behind.
C36_UnansweredTurnLeavesHistory ==
  \A th \in Threads :
    (T(th).pc = "returned" /\ T(th).env.message \in {ADVISORY, SOMETHING_WRONG})
      => /\ HistSeq(hists[T(th).hist]) = T(th).prior
         /\ HumanMessage(Question(T(th).n))
              \notin Range(HistSeq(hists[T(th).hist]))

\* C37: with the store answering, delete_chat_history of a session that has
\* no record returns the deleted result and changes nothing; no delete
\* changes the record or the messages of another session; and a delete that
\* follows a delete of the same session that reached the store leaves
\* sessions and messages as the first left them.
C37_DeleteIsIdempotent ==
  [][(api'.nops > api.nops /\ api'.op = "delete_chat_history") =>
       /\ (api'.arg = "absent" /\ api'.how # "store_raises")
            => /\ api'.status = "ok"
               /\ api'.message = DELETED
               /\ sessions' = sessions
               /\ store' = store
       /\ \A sid \in Sessions \ {api'.sid} :
            /\ store'[sid] = store[sid]
            /\ (sid \in sessions') = (sid \in sessions)
       /\ (/\ api.op = "delete_chat_history"
           /\ api.sid = api'.sid
           /\ api.how # "store_raises")
            => sessions' = sessions /\ store' = store]_vars

\* a second delete of a session, now without a record, was answered
C37_Witness ==
  /\ api.op = "delete_chat_history"
  /\ api.nops >= 2
  /\ api.arg = "absent"
  /\ api.status = "ok"
  /\ api.message = DELETED

\* the least number of pages of limit entries that hold total_count entries
Ceiling(total_count, limit) ==
  CHOOSE p \in 0..total_count :
    p * limit >= total_count /\ (p > 0 => (p - 1) * limit < total_count)

\* C38: for every total_count >= 0, limit >= 1 and offset >= 0 the
\* pagination block of a listing that returned has total_pages the ceiling
\* of total_count / limit, has_next exactly when current_page is less than
\* total_pages and has_previous exactly when current_page is more than 1.
C38_PaginationIsConsistent ==
  (page.phase = "done" /\ page.status = "ok" /\ page.limit >= 1
     /\ page.offset >= 0)
    => LET p == page.pagination IN
       /\ p.total_pages = Ceiling(page.total_count, page.limit)
       /\ p.has_next <=> p.current_page < p.total_pages
       /\ p.has_previous <=> p.current_page > 1

\* C39: on a durable handle, whatever reads of messages, add_message calls
\* and clear calls came before and whichever of them failed in the store,
\* a handle whose validated flag is set holds a list as its cached view
\* and never None, and a read of messages returns normally with that
\* list.
C39_ValidatedViewIsAList ==
  LET h == hists[TheHandle] IN
  /\ h.validated => h.list \in 1..Len(lists)
  /\ api.op = "messages"
       => /\ api.status = "ok"
          /\ h.validated
          /\ h.list \in 1..Len(lists)
          /\ api.result = lists[h.list]

C39_Witness ==
  /\ api.nops = MaxOps
  /\ api.op = "messages"
  /\ api.arg = "raise"
  /\ api.result = <<>>
  /\ store["s1"] = <<OldHuman, NewMessage>>
  /\ hists[TheHandle].validated
  /\ Len(lists) = 2

====
